---- MODULE Spec2Model ----
(***************************************************************************)
(* Model of tonneli: the plugin registry, the service facade and the two   *)
(* provider adapters (Cologne / AWB, Nuremberg / RegioIT).                 *)
(*                                                                         *)
(* Rust Strings are modelled as sequences of one-character strings, so     *)
(* that trim, to_lowercase, contains, split and format! are computed.      *)
(* A call of the facade is a frame that runs from its start to the first   *)
(* backend request, is resumed by each backend response and ends "done".   *)
(***************************************************************************)
EXTENDS Integers, Sequences, FiniteSets, TLC

VARIABLES
    plugins,    \* the plugin list given to PluginRegistry::new
    registry,   \* PluginRegistry.plugins: CityId -> CityPlugin
    calls,      \* the frames of the callers' facade calls
    app         \* the App of the terminal UI and the position of its run loop

vars == <<plugins, registry, calls, app>>

\* What no step of a facade call writes.
fixed == <<plugins, registry, app>>

(***************************************************************************)
(* Bounds of the model.                                                    *)
(***************************************************************************)
MaxLimit == 2
MaxEntries == 2

(***************************************************************************)
(* String helpers (std::str).  Chars gives a string literal as the         *)
(* sequence of its characters.                                             *)
(***************************************************************************)
Chars(str) == [i \in 1..Len(str) |-> SubSeq(str, i, i)]

IsWhitespace(c) == c \in {" ", "\t"}

RECURSIVE TrimStart(_)
TrimStart(s) ==
    IF s = <<>> THEN s
    ELSE IF IsWhitespace(Head(s)) THEN TrimStart(Tail(s)) ELSE s

RECURSIVE TrimEnd(_)
TrimEnd(s) ==
    IF s = <<>> THEN s
    ELSE IF IsWhitespace(s[Len(s)]) THEN TrimEnd(SubSeq(s, 1, Len(s) - 1)) ELSE s

Trim(s) == TrimEnd(TrimStart(s))

UpperAlphabet == Chars("ABCDEFGHIJKLMNOPQRSTUVWXYZ")
LowerAlphabet == Chars("abcdefghijklmnopqrstuvwxyz")

\* char::to_lowercase on the ASCII letters; every other character is kept.
LowerChar(c) ==
    IF \E i \in 1..Len(UpperAlphabet) : UpperAlphabet[i] = c
    THEN LowerAlphabet[CHOOSE i \in 1..Len(UpperAlphabet) : UpperAlphabet[i] = c]
    ELSE c

ToLowercase(s) == [i \in 1..Len(s) |-> LowerChar(s[i])]

Contains(s, sub) ==
    \E i \in 0..(Len(s) - Len(sub)) : SubSeq(s, i + 1, i + Len(sub)) = sub

\* str::split(sep): the parts between separators; always at least one part.
RECURSIVE Split(_, _)
Split(s, sep) ==
    IF \A i \in 1..Len(s) : s[i] # sep THEN <<s>>
    ELSE LET i == CHOOSE k \in 1..Len(s) :
                      s[k] = sep /\ \A j \in 1..(k - 1) : s[j] # sep
         IN  <<SubSeq(s, 1, i - 1)>> \o Split(SubSeq(s, i + 1, Len(s)), sep)

(***************************************************************************)
(* Option and Result.                                                      *)
(***************************************************************************)
None == [some |-> FALSE, val |-> <<>>]
Some(v) == [some |-> TRUE, val |-> v]

Ok(v) == [ok |-> TRUE, value |-> v, err |-> "none"]
Err(e) == [ok |-> FALSE, value |-> <<>>, err |-> e]

PortError ==
    {"Network", "Parse", "AddressNotFound", "UnsupportedCity",
     "InvalidAddressId", "UnknownFraction", "Internal"}

(***************************************************************************)
(* Plugins and the registry (tonneli-core/src/plugin.rs).                  *)
(***************************************************************************)
CologneCityMeta == [id |-> "cologne", name |-> "Koeln"]
NurembergCityMeta == [id |-> "nuremberg", name |-> "Nuernberg"]

ColognePlugin ==
    [meta |-> CologneCityMeta, address_port |-> "cologne", schedule_port |-> "cologne"]
NurembergPlugin ==
    [meta |-> NurembergCityMeta, address_port |-> "nuremberg",
     schedule_port |-> "nuremberg"]

\* AddressPort::city / SchedulePort::city: the meta the port's constructor
\* took from its provider's city_meta().
PortCity(port) == IF port = "cologne" THEN CologneCityMeta ELSE NurembergCityMeta

\* The CityIds callers pass: the registered ones and one never registered.
CityIds == {"cologne", "nuremberg", "aachen"}

\* Mutant: the map is keyed by the display name.
PluginRegistryNewByName(list) ==
    [name \in {list[i].meta.name : i \in 1..Len(list)} |->
        list[CHOOSE i \in 1..Len(list) :
                 /\ list[i].meta.name = name
                 /\ \A j \in (i + 1)..Len(list) : list[j].meta.name # name]]

\* HashMap::from_iter: a later plugin with the same CityId replaces an earlier one.
PluginRegistryNew(list) ==
    [id \in {list[i].meta.id : i \in 1..Len(list)} |->
        LET last == CHOOSE i \in 1..Len(list) :
                        /\ list[i].meta.id = id
                        /\ \A j \in (i + 1)..Len(list) : list[j].meta.id # id
        IN  list[last]]

\* Mutant: a miss falls back to some registered plugin.
RegistryPluginOrAny(reg, city) ==
    IF city \in DOMAIN reg THEN Ok(reg[city])
    ELSE Ok(reg[CHOOSE id \in DOMAIN reg : TRUE])

\* self.plugins.get(city).ok_or(PortError::UnsupportedCity)
RegistryPlugin(reg, city) ==
    IF city \in DOMAIN reg THEN Ok(reg[city]) ELSE Err("UnsupportedCity")

\* The orders in which a HashMap may yield its keys.
KeyOrders(reg) ==
    {order \in [1..Cardinality(DOMAIN reg) -> DOMAIN reg] :
        \A i, j \in DOMAIN order : order[i] = order[j] => i = j}

\* Mutant: only the first value of the map is listed.
RegistryCitiesFirst(reg, order) ==
    [i \in 1..(IF order = <<>> THEN 0 ELSE 1) |-> reg[order[i]].meta]

\* self.plugins.values().map(|plugin| plugin.meta.clone()).collect()
RegistryCities(reg, order) == [i \in 1..Len(order) |-> reg[order[i]].meta]

\* TonneliService::cities: the (id, name) pairs of registry.cities().
ServiceCities(reg, order) ==
    [i \in 1..Len(order) |->
        <<RegistryCities(reg, order)[i].id, RegistryCities(reg, order)[i].name>>]

PluginLists ==
    {<<ColognePlugin, NurembergPlugin>>, <<NurembergPlugin>>,
     <<ColognePlugin, ColognePlugin>>}

(***************************************************************************)
(* Call frames.  A frame holds the facade's arguments, the port            *)
(* invocations made for the call, the backend requests issued so far, the  *)
(* adapter's locals across its await points, and the result.               *)
(***************************************************************************)
NoRange == [start |-> <<0, 0, 0>>, end |-> <<0, 0, 0>>]
NoQuery == [street |-> <<>>, house_number |-> None]
NoArgs == [query |-> NoQuery, limit |-> 0, address_id |-> <<>>, range |-> NoRange]
NoResult == [ok |-> FALSE, value |-> <<>>, err |-> "pending"]

IdleFrame ==
    [pc |-> "idle", op |-> "none", city |-> "none", args |-> NoArgs,
     invoked |-> <<>>, reqs |-> <<>>, resps |-> <<>>,
     streets |-> <<>>, results |-> <<>>, result |-> NoResult]

\* Mutant: the facade turns a failure into an empty success.
FacadeReturnNoError(f, r) ==
    [f EXCEPT !.pc = "done", !.result = IF r.ok THEN r ELSE Ok(<<>>)]

\* The facade returns r to its caller.
FacadeReturn(f, r) == [f EXCEPT !.pc = "done", !.result = r]

\* The invoked port returns r to the facade, which returns it unchanged.
Finish(f, r) ==
    FacadeReturn([f EXCEPT !.invoked[Len(f.invoked)].returned = r], r)

\* The frame of a call suspended on the backend request req.
Await(f, req) == [f EXCEPT !.pc = "await", !.reqs = Append(@, req)]

\* The frame of a call that was resumed with the outcome of its last request.
Received(f, outcome) == [f EXCEPT !.resps = Append(@, outcome)]

SeqsUpTo(S, n) == UNION {[1..k -> S] : k \in 0..n}

(***************************************************************************)
(* fetch_json: send, error_for_status, json.  Every failure is a           *)
(* reqwest::Error, converted by From into PortError::Network.              *)
(***************************************************************************)
FetchFailures == {"transport", "status", "decode"}
Failed(kind) == [kind |-> kind, data |-> <<>>]
Fetched(data) == [kind |-> "ok", data |-> data]

\* Mutant: a failed fetch yields the default, an empty body.
FetchJsonOrDefault(outcome) ==
    IF outcome.kind = "ok" THEN Ok(outcome.data) ELSE Ok(<<>>)

FetchJson(outcome) ==
    IF outcome.kind = "ok" THEN Ok(outcome.data) ELSE Err("Network")

(***************************************************************************)
(* AddressSearch (tonneli-core/src/ports.rs).                              *)
(***************************************************************************)
\* Mutant: the street is not trimmed before the test.
AddressSearchIsEmptyUntrimmed(query) == query.street = <<>>

AddressSearchIsEmpty(query) == Trim(query.street) = <<>>

\* house_number.as_deref().map(str::trim).filter(|s| !s.is_empty())
TrimmedHouseNumber(query) ==
    IF query.house_number.some /\ Trim(query.house_number.val) # <<>>
    THEN Some(Trim(query.house_number.val))
    ELSE None

(***************************************************************************)
(* Cologne adapter: address search.                                        *)
(***************************************************************************)
CologneStreetEntries ==
    { [street_name |-> Chars("ab"), building_number |-> Chars("1"),
       building_number_addition |-> <<>>, street_code |-> Chars("7"),
       user_street_name |-> <<>>, user_building_number |-> <<>>],
      [street_name |-> Chars("ab"), building_number |-> Chars("1"),
       building_number_addition |-> Chars("a"), street_code |-> Chars("7"),
       user_street_name |-> Chars("Ab"), user_building_number |-> Chars("1a")],
      [street_name |-> Chars("c"), building_number |-> Chars("2"),
       building_number_addition |-> <<>>, street_code |-> Chars("7:1"),
       user_street_name |-> <<>>, user_building_number |-> <<>>],
      [street_name |-> Chars("c"), building_number |-> Chars("3"),
       building_number_addition |-> Chars("b:c"), street_code |-> Chars("8"),
       user_street_name |-> <<>>, user_building_number |-> <<>>] }

CologneStreetsResponses ==
    {Failed(k) : k \in FetchFailures}
        \cup {Fetched(d) : d \in SeqsUpTo(CologneStreetEntries, MaxEntries)}

\* format!("{}:{}:{}", street_code, building_number, building_number_addition)
CologneEncodeId(entry) ==
    entry.street_code \o Chars(":") \o entry.building_number \o Chars(":")
        \o entry.building_number_addition

\* Mutant: the label is built from the backend's names, not from the
\* user-facing names the street and house_number fields take.
CologneAddressBackendLabel(entry) ==
    LET street == IF entry.user_street_name = <<>>
                  THEN entry.street_name ELSE entry.user_street_name
        house == IF entry.user_building_number = <<>>
                 THEN entry.building_number ELSE entry.user_building_number
    IN  [id |-> CologneEncodeId(entry), city |-> CologneCityMeta.id,
         label |-> entry.street_name \o Chars(" ") \o entry.building_number,
         street |-> street, house_number |-> house]

CologneAddress(entry) ==
    LET street == IF entry.user_street_name = <<>>
                  THEN entry.street_name ELSE entry.user_street_name
        house == IF entry.user_building_number = <<>>
                 THEN entry.building_number ELSE entry.user_building_number
    IN  [id |-> CologneEncodeId(entry), city |-> PortCity("cologne").id,
         label |-> street \o Chars(" ") \o house,
         street |-> street, house_number |-> house]

\* Mutant: the iterator is not cut off.
TakeAll(seq, n) == seq

\* resp.data.into_iter().take(limit)
Take(seq, n) == SubSeq(seq, 1, IF Len(seq) < n THEN Len(seq) ELSE n)

\* search, up to its only await point.
CologneSearchStart(f, query, limit) ==
    IF limit = 0 \/ AddressSearchIsEmpty(query)
    THEN Finish(f, Ok(<<>>))
    ELSE Await(f, [ep |-> "cologne/streets",
                   street_name |-> Trim(query.street),
                   building_number |->
                       IF TrimmedHouseNumber(query).some
                       THEN TrimmedHouseNumber(query).val ELSE <<>>])

\* search, from the response of /streets to its return.
CologneSearchResume(f, outcome) ==
    LET resp == FetchJson(outcome)
        g == Received(f, outcome)
    IN  IF ~resp.ok THEN Finish(g, Err(resp.err))
        ELSE LET taken == Take(resp.value, f.args.limit)
             IN  Finish(g, Ok([i \in 1..Len(taken) |-> CologneAddress(taken[i])]))

(***************************************************************************)
(* Calendar dates (chrono::NaiveDate) as <<year, month, day>>.             *)
(***************************************************************************)
IsLeapYear(y) == (y % 4 = 0 /\ y % 100 # 0) \/ y % 400 = 0

DaysInMonth(y, m) ==
    CASE m \in {1, 3, 5, 7, 8, 10, 12} -> 31
      [] m \in {4, 6, 9, 11} -> 30
      [] OTHER -> IF IsLeapYear(y) THEN 29 ELSE 28

\* NaiveDate::from_ymd_opt
FromYmdOpt(y, m, d) ==
    IF m \in 1..12 /\ d >= 1 /\ d <= DaysInMonth(y, m)
    THEN Some(<<y, m, d>>) ELSE None

\* The derived Ord of NaiveDate.
DateLt(a, b) ==
    \/ a[1] < b[1]
    \/ a[1] = b[1] /\ a[2] < b[2]
    \/ a[1] = b[1] /\ a[2] = b[2] /\ a[3] < b[3]

DateLe(a, b) == ~DateLt(b, a)

\* Mutant: the comparisons exclude the two boundary dates.
OutOfRangeAtBounds(date, range) ==
    ~DateLt(range.start, date) \/ ~DateLt(date, range.end)

\* if date < range.start || date > range.end { continue; }
OutOfRange(date, range) == DateLt(date, range.start) \/ DateLt(range.end, date)

\* Vec::sort_by_key(|event| event.date): a stable sort.
RECURSIVE InsertByDate(_, _)
InsertByDate(sorted, e) ==
    IF sorted = <<>> THEN <<e>>
    ELSE IF DateLt(e.date, Head(sorted).date) THEN <<e>> \o sorted
    ELSE <<Head(sorted)>> \o InsertByDate(Tail(sorted), e)

RECURSIVE SortByDate(_)
SortByDate(events) ==
    IF events = <<>> THEN <<>>
    ELSE InsertByDate(SortByDate(SubSeq(events, 1, Len(events) - 1)),
                      events[Len(events)])

(***************************************************************************)
(* Fraction (tonneli-core/src/model.rs).                                   *)
(***************************************************************************)
CanonicalFractions == {"Residual", "Organic", "Paper", "Plastic", "Glass", "Metal"}
Canonical(tag) == [tag |-> tag, name |-> <<>>]
Other(name) == [tag |-> "Other", name |-> name]

(***************************************************************************)
(* Cologne adapter: schedule.                                              *)
(***************************************************************************)
\* Mutant: a type is recognised by a keyword anywhere in it.
map_awb_type_substring(raw) ==
    LET type_tag == ToLowercase(raw) IN
    CASE Contains(type_tag, Chars("grey")) ->
             <<Canonical("Residual"), Chars("Restabfall")>>
      [] Contains(type_tag, Chars("blue")) ->
             <<Canonical("Paper"), Chars("Papier / Pappe")>>
      [] Contains(type_tag, Chars("wertstoff")) ->
             <<Canonical("Plastic"),
               Chars("Leichtverpackungen / Wertstoffe")>>
      [] Contains(type_tag, Chars("brown")) ->
             <<Canonical("Organic"), Chars("Bioabfall")>>
      [] OTHER -> <<Other(raw), Chars("Fraktion ") \o raw>>

\* Map AWB "type" strings to the Fraction enum and a human note.
map_awb_type(raw) ==
    LET type_tag == ToLowercase(raw) IN
    CASE type_tag = Chars("grey") -> <<Canonical("Residual"), Chars("Restabfall")>>
      [] type_tag = Chars("blue") -> <<Canonical("Paper"), Chars("Papier / Pappe")>>
      [] type_tag = Chars("wertstoff") ->
             <<Canonical("Plastic"),
               Chars("Leichtverpackungen / Wertstoffe")>>
      [] type_tag = Chars("brown") -> <<Canonical("Organic"), Chars("Bioabfall")>>
      [] OTHER -> <<Other(raw), Chars("Fraktion ") \o raw>>

\* Mutant: a missing building number defaults to "" like a missing addition.
CologneDecodeIdLenient(id) ==
    LET id_parts == Split(id, ":") IN
    Ok([street_code |-> id_parts[1],
        building_number |-> IF Len(id_parts) < 2 THEN <<>> ELSE id_parts[2],
        building_number_addition |->
            IF Len(id_parts) < 3 THEN <<>> ELSE id_parts[3]])

\* AddressId format: "street_code:building_number:building_number_addition"
CologneDecodeId(id) ==
    LET id_parts == Split(id, ":") IN
    IF Len(id_parts) < 1 THEN Err("InvalidAddressId")
    ELSE IF Len(id_parts) < 2 THEN Err("InvalidAddressId")
    ELSE Ok([street_code |-> id_parts[1],
             building_number |-> id_parts[2],
             building_number_addition |->
                 IF Len(id_parts) < 3 THEN <<>> ELSE id_parts[3]])

\* Mutant: the months of the endpoints are requested also across years.
CologneWindowEndpointMonths(range) ==
    [start_year |-> range.start[1], end_year |-> range.end[1],
     start_month |-> range.start[2], end_month |-> range.end[2]]

\* The year/month window requested from /calendar for a range.
CologneWindow(range) ==
    LET start_year == range.start[1]
        end_year == range.end[1]
    IN  [start_year |-> start_year, end_year |-> end_year,
         start_month |-> IF start_year = end_year THEN range.start[2] ELSE 1,
         end_month |-> IF start_year = end_year THEN range.end[2] ELSE 12]

\* Mutant: a range with start > end is rejected before the request.
CologneScheduleStartOrderedRange(f, address_id, range) ==
    LET keys == CologneDecodeId(address_id) IN
    IF ~keys.ok THEN Finish(f, Err(keys.err))
    ELSE IF DateLt(range.end, range.start) THEN Finish(f, Err("Internal"))
    ELSE Await(f, [ep |-> "cologne/calendar",
                   building_number |-> keys.value.building_number,
                   street_code |-> keys.value.street_code,
                   window |-> CologneWindow(range),
                   building_number_addition |->
                       IF keys.value.building_number_addition = <<>> THEN None
                       ELSE Some(keys.value.building_number_addition)])

\* schedule, up to its only await point.
CologneScheduleStart(f, address_id, range) ==
    LET keys == CologneDecodeId(address_id) IN
    IF ~keys.ok THEN Finish(f, Err(keys.err))
    ELSE Await(f, [ep |-> "cologne/calendar",
                   building_number |-> keys.value.building_number,
                   street_code |-> keys.value.street_code,
                   window |-> CologneWindow(range),
                   building_number_addition |->
                       IF keys.value.building_number_addition = <<>> THEN None
                       ELSE Some(keys.value.building_number_addition)])

\* Mutant: the range filter comes first, on the entry's year, month and day,
\* and only the entries it keeps are validated.
RECURSIVE CologneEventsFilterFirst(_, _, _)
CologneEventsFilterFirst(data, range, events) ==
    IF data = <<>> THEN Ok(events)
    ELSE LET entry == Head(data)
             date == FromYmdOpt(entry.year, entry.month, entry.day)
         IN  IF OutOfRange(<<entry.year, entry.month, entry.day>>, range)
             THEN CologneEventsFilterFirst(Tail(data), range, events)
             ELSE IF ~date.some THEN Err("Internal")
             ELSE CologneEventsFilterFirst(Tail(data), range,
                      Append(events,
                             [date |-> date.val,
                              fraction |-> map_awb_type(entry.typ)[1],
                              note |-> Some(map_awb_type(entry.typ)[2])]))

\* The loop over calendar.data: the events pushed, or the first error.
RECURSIVE CologneEvents(_, _, _)
CologneEvents(data, range, events) ==
    IF data = <<>> THEN Ok(events)
    ELSE LET entry == Head(data)
             date == FromYmdOpt(entry.year, entry.month, entry.day)
         IN  IF ~date.some THEN Err("Internal")
             ELSE IF OutOfRange(date.val, range)
             THEN CologneEvents(Tail(data), range, events)
             ELSE CologneEvents(Tail(data), range,
                      Append(events,
                             [date |-> date.val,
                              fraction |-> map_awb_type(entry.typ)[1],
                              note |-> Some(map_awb_type(entry.typ)[2])]))

\* events.sort_by_key(|event| event.date)
CologneSortEvents(events) == SortByDate(events)

\* schedule, from the response of /calendar to its return.
CologneScheduleResume(f, outcome) ==
    LET calendar == FetchJson(outcome)
        g == Received(f, outcome)
    IN  IF ~calendar.ok THEN Finish(g, Err(calendar.err))
        ELSE LET events == CologneEvents(calendar.value, f.args.range, <<>>)
             IN  IF ~events.ok THEN Finish(g, Err(events.err))
                 ELSE Finish(g, Ok(CologneSortEvents(events.value)))

\* Backend calendar entries: dates around the ranges below, one of them no
\* calendar date, and known and unknown types.
CalendarDates ==
    {<<2024, 12, 15>>, <<2024, 12, 31>>, <<2025, 1, 15>>, <<2025, 1, 16>>,
     <<2025, 2, 30>>}
CalendarTypes == {Chars("Brown"), Chars("Xyz")}

CologneCalendarEntries ==
    {[year |-> d[1], month |-> d[2], day |-> d[3], typ |-> t] :
        d \in CalendarDates, t \in CalendarTypes}

CologneCalendarResponses ==
    {Failed(k) : k \in FetchFailures}
        \cup {Fetched(d) : d \in SeqsUpTo(CologneCalendarEntries, MaxEntries)}

\* The ranges callers pass: across years, within a month, across months of a
\* year, one day, inverted.
Ranges ==
    {[start |-> <<2024, 12, 15>>, end |-> <<2025, 1, 15>>],
     [start |-> <<2024, 12, 15>>, end |-> <<2024, 12, 31>>],
     [start |-> <<2025, 1, 15>>, end |-> <<2025, 2, 28>>],
     [start |-> <<2025, 1, 15>>, end |-> <<2025, 1, 15>>],
     [start |-> <<2025, 1, 15>>, end |-> <<2024, 12, 15>>]}

(***************************************************************************)
(* Integers and their decimal text.  The backend's house-number ids are    *)
(* i64; values above TLC's integers are kept as sign and magnitude         *)
(* hi * 10^9 + lo.                                                         *)
(***************************************************************************)
I32Max == 2147483647
I32Min == -I32Max - 1

DigitChars == Chars("0123456789")
IsDigit(c) == \E i \in 1..10 : DigitChars[i] = c
DigitValue(c) == (CHOOSE i \in 1..10 : DigitChars[i] = c) - 1

RECURSIVE NatToString(_)
NatToString(n) ==
    IF n < 10 THEN <<DigitChars[n + 1]>>
    ELSE NatToString(n \div 10) \o <<DigitChars[(n % 10) + 1]>>

RECURSIVE ZeroPad(_, _)
ZeroPad(s, width) == IF Len(s) >= width THEN s ELSE ZeroPad(<<"0">> \o s, width)

I64(neg, hi, lo) == [neg |-> neg, hi |-> hi, lo |-> lo]

\* i64::to_string
I64ToString(v) ==
    (IF v.neg THEN Chars("-") ELSE <<>>)
        \o (IF v.hi = 0 THEN NatToString(v.lo)
            ELSE NatToString(v.hi) \o ZeroPad(NatToString(v.lo), 9))

\* The i64 with the value of the i32 n.
I64FromI32(n) ==
    IF n = I32Min THEN I64(TRUE, 2, 147483648)
    ELSE LET m == IF n < 0 THEN -n ELSE n
         IN  I64(n < 0, m \div (10 ^ 9), m % (10 ^ 9))

\* The digit loop of i32::from_str: checked_mul and checked_add (checked_sub
\* for a negative number) fail on overflow.
RECURSIVE ParseI32Digits(_, _, _)
ParseI32Digits(digits, acc, neg) ==
    IF digits = <<>> THEN Ok(acc)
    ELSE IF ~IsDigit(Head(digits)) THEN Err("InvalidDigit")
    ELSE LET d == DigitValue(Head(digits)) IN
         IF neg
         THEN IF acc < (I32Min + d + 9) \div 10 THEN Err("NegOverflow")
              ELSE ParseI32Digits(Tail(digits), acc * 10 - d, neg)
         ELSE IF acc > (I32Max - d) \div 10 THEN Err("PosOverflow")
              ELSE ParseI32Digits(Tail(digits), acc * 10 + d, neg)

\* str::parse::<i32>
ParseI32(s) ==
    IF s = <<>> THEN Err("Empty")
    ELSE LET digits == IF Head(s) \in {"+", "-"} THEN Tail(s) ELSE s IN
         IF digits = <<>> THEN Err("InvalidDigit")
         ELSE ParseI32Digits(digits, 0, Head(s) = "-")

(***************************************************************************)
(* Nuremberg adapter: address search.                                      *)
(***************************************************************************)
\* The byte order of the characters used, for the Ord of String.
CharOrder == Chars(" +-/0123456789:") \o UpperAlphabet \o LowerAlphabet
CharRank(c) == CHOOSE i \in 1..Len(CharOrder) : CharOrder[i] = c

RECURSIVE StrLt(_, _)
StrLt(a, b) ==
    IF b = <<>> THEN FALSE
    ELSE IF a = <<>> THEN TRUE
    ELSE IF Head(a) = Head(b) THEN StrLt(Tail(a), Tail(b))
    ELSE CharRank(Head(a)) < CharRank(Head(b))

\* detail.house_numbers.sort_by_key(|hn| hn.number.clone()): a stable sort.
RECURSIVE InsertByNumber(_, _)
InsertByNumber(sorted, hn) ==
    IF sorted = <<>> THEN <<hn>>
    ELSE IF StrLt(hn.number, Head(sorted).number) THEN <<hn>> \o sorted
    ELSE <<Head(sorted)>> \o InsertByNumber(Tail(sorted), hn)

RECURSIVE SortByNumber(_)
SortByNumber(hns) ==
    IF hns = <<>> THEN <<>>
    ELSE InsertByNumber(SortByNumber(SubSeq(hns, 1, Len(hns) - 1)), hns[Len(hns)])

\* Iterator::filter: the elements that pass, in their order.
Filter(seq, Keep(_)) ==
    LET kept == {i \in 1..Len(seq) : Keep(seq[i])}
    IN  [k \in 1..Cardinality(kept) |->
            seq[CHOOSE i \in kept : Cardinality({j \in kept : j <= i}) = k]]

\* AddressId(house_number.id.to_string())
NurembergEncodeId(house_number) == I64ToString(house_number.id)

NurembergAddress(street, house_number) ==
    [id |-> NurembergEncodeId(house_number), city |-> PortCity("nuremberg").id,
     label |-> street.name \o Chars(" ") \o house_number.number,
     street |-> street.name, house_number |-> house_number.number]

\* house_number.map(trim).filter(non-empty).map(to_lowercase)
NurembergHouseFilter(query) ==
    IF TrimmedHouseNumber(query).some
    THEN Some(ToLowercase(TrimmedHouseNumber(query).val)) ELSE None

\* search, up to the request of the street list.
NurembergSearchStart(f, query, limit) ==
    IF limit = 0 \/ AddressSearchIsEmpty(query) THEN Finish(f, Ok(<<>>))
    ELSE IF Trim(query.street) = <<>> THEN Finish(f, Ok(<<>>))
    ELSE Await(f, [ep |-> "nuremberg/strassen", id |-> 0])

\* Mutant: the loop has no break at the limit.
NurembergSearchLoopNoBreak(f) ==
    IF f.streets = <<>> THEN Finish(f, Ok(f.results))
    ELSE Await(f, [ep |-> "nuremberg/strasse", id |-> Head(f.streets).id])

\* The head of the loop over the matching streets: return, or request the
\* details of the next street.
NurembergSearchLoop(f) ==
    IF f.streets = <<>> THEN Finish(f, Ok(f.results))
    ELSE IF Len(f.results) = f.args.limit THEN Finish(f, Ok(f.results))
    ELSE Await(f, [ep |-> "nuremberg/strasse", id |-> Head(f.streets).id])

\* search, from the response of /strassen.
NurembergStreetsResume(f, outcome) ==
    LET streets == FetchJson(outcome)
        g == Received(f, outcome)
        query_lower == ToLowercase(Trim(f.args.query.street))
        Matches(candidate) == Contains(ToLowercase(candidate.name), query_lower)
    IN  IF ~streets.ok THEN Finish(g, Err(streets.err))
        ELSE NurembergSearchLoop(
                 [g EXCEPT !.streets = Filter(streets.value, Matches),
                           !.results = <<>>])

\* The addresses one street adds to the results.
NurembergStreetAddresses(street, house_numbers, house_filter, remaining) ==
    LET Passes(hn) ==
            IF house_filter.some
            THEN Contains(ToLowercase(hn.number), house_filter.val) ELSE TRUE
        kept == Take(Filter(SortByNumber(house_numbers), Passes), remaining)
    IN  [i \in 1..Len(kept) |-> NurembergAddress(street, kept[i])]

\* search, from the response of /strassen/{id}.
NurembergDetailResume(f, outcome) ==
    LET detail == FetchJson(outcome)
        g == Received(f, outcome)
        remaining == f.args.limit - Len(f.results)
    IN  IF ~detail.ok THEN Finish(g, Err(detail.err))
        ELSE NurembergSearchLoop(
                 [g EXCEPT !.streets = Tail(f.streets),
                           !.results = f.results \o
                               NurembergStreetAddresses(Head(f.streets), detail.value,
                                   NurembergHouseFilter(f.args.query), remaining)])

\* Backend data: street lists with none, one and two streets matching "ab",
\* and house numbers whose ids lie within and beyond the i32 range.
NurembergStreetLists ==
    {<<>>,
     <<[id |-> 1, name |-> Chars("Abw")]>>,
     <<[id |-> 2, name |-> Chars("Rab")], [id |-> 1, name |-> Chars("Abw")]>>,
     <<[id |-> 1, name |-> Chars("Abw")], [id |-> 3, name |-> Chars("Cd")],
       [id |-> 2, name |-> Chars("Rab")]>>}

NurembergStreetsResponses ==
    {Failed(k) : k \in FetchFailures} \cup {Fetched(d) : d \in NurembergStreetLists}

NurembergHouseNumbers ==
    {[id |-> I64(FALSE, 0, 7), number |-> Chars("2")],
     [id |-> I64(FALSE, 2, 147483648), number |-> Chars("1A")]}

NurembergDetailResponses ==
    {Failed(k) : k \in FetchFailures}
        \cup {Fetched(d) : d \in SeqsUpTo(NurembergHouseNumbers, MaxEntries)}

(***************************************************************************)
(* Nuremberg adapter: schedule.                                            *)
(***************************************************************************)
\* Mutant: Other carries the lowercased name.
map_fraction_normalized(name) ==
    LET normalized == ToLowercase(name) IN
    IF Contains(normalized, Chars("rest")) THEN Canonical("Residual")
    ELSE IF Contains(normalized, Chars("bio")) THEN Canonical("Organic")
    ELSE IF Contains(normalized, Chars("papier")) \/ Contains(normalized, Chars("pappe"))
    THEN Canonical("Paper")
    ELSE IF \/ Contains(normalized, Chars("gelb"))
            \/ Contains(normalized, Chars("leichtverpackung"))
            \/ Contains(normalized, Chars("lvp"))
    THEN Canonical("Plastic")
    ELSE IF Contains(normalized, Chars("glas")) THEN Canonical("Glass")
    ELSE IF Contains(normalized, Chars("metall")) \/ Contains(normalized, Chars("schrott"))
    THEN Canonical("Metal")
    ELSE Other(normalized)

\* Mutant: the keywords are matched against the name as the backend spelt it.
map_fraction_case_sensitive(name) ==
    LET normalized == name IN
    IF Contains(normalized, Chars("rest")) THEN Canonical("Residual")
    ELSE IF Contains(normalized, Chars("bio")) THEN Canonical("Organic")
    ELSE IF Contains(normalized, Chars("papier")) \/ Contains(normalized, Chars("pappe"))
    THEN Canonical("Paper")
    ELSE IF \/ Contains(normalized, Chars("gelb"))
            \/ Contains(normalized, Chars("leichtverpackung"))
            \/ Contains(normalized, Chars("lvp"))
    THEN Canonical("Plastic")
    ELSE IF Contains(normalized, Chars("glas")) THEN Canonical("Glass")
    ELSE IF Contains(normalized, Chars("metall")) \/ Contains(normalized, Chars("schrott"))
    THEN Canonical("Metal")
    ELSE Other(name)

map_fraction(name) ==
    LET normalized == ToLowercase(name) IN
    IF Contains(normalized, Chars("rest")) THEN Canonical("Residual")
    ELSE IF Contains(normalized, Chars("bio")) THEN Canonical("Organic")
    ELSE IF Contains(normalized, Chars("papier")) \/ Contains(normalized, Chars("pappe"))
    THEN Canonical("Paper")
    ELSE IF \/ Contains(normalized, Chars("gelb"))
            \/ Contains(normalized, Chars("leichtverpackung"))
            \/ Contains(normalized, Chars("lvp"))
    THEN Canonical("Plastic")
    ELSE IF Contains(normalized, Chars("glas")) THEN Canonical("Glass")
    ELSE IF Contains(normalized, Chars("metall")) \/ Contains(normalized, Chars("schrott"))
    THEN Canonical("Metal")
    ELSE Other(name)

\* address_id.0.parse::<i32>().map_err(|_| PortError::InvalidAddressId)
NurembergDecodeId(id) ==
    LET house_number_id == ParseI32(id) IN
    IF house_number_id.ok THEN house_number_id ELSE Err("InvalidAddressId")

\* The value of a field of at most `width` decimal digits.
RECURSIVE DigitsValue(_, _)
DigitsValue(s, acc) ==
    IF s = <<>> THEN acc ELSE DigitsValue(Tail(s), acc * 10 + DigitValue(Head(s)))

IsNumericField(s, width) ==
    Len(s) \in 1..width /\ \A i \in 1..Len(s) : IsDigit(s[i])

\* NaiveDate::parse_from_str(s, "%Y-%m-%d"): three numeric fields separated by
\* '-' that form a calendar date.
ParseFromStr(s) ==
    LET fields == Split(s, "-") IN
    IF Len(fields) # 3 THEN Err("Parse")
    ELSE IF ~(/\ IsNumericField(fields[1], 4)
              /\ IsNumericField(fields[2], 2)
              /\ IsNumericField(fields[3], 2))
    THEN Err("Parse")
    ELSE LET date == FromYmdOpt(DigitsValue(fields[1], 0), DigitsValue(fields[2], 0),
                                DigitsValue(fields[3], 0))
         IN  IF date.some THEN Ok(date.val) ELSE Err("Parse")

\* fraction_names: HashMap<i64, String>; a later insert of an id replaces.
FractionName(fractions, id) ==
    LET with_id == {i \in 1..Len(fractions) : fractions[i].id = id} IN
    IF with_id = {} THEN None
    ELSE Some(fractions[CHOOSE i \in with_id : \A j \in with_id : j <= i].name)

\* Mutant: the fractions are requested before the id is parsed.
NurembergScheduleStartRequestFirst(f, address_id, range) ==
    LET house_number_id == NurembergDecodeId(address_id) IN
    IF ~house_number_id.ok
    THEN Finish(Await(f, [ep |-> "nuremberg/fraktionen",
                          house_number_id |-> 0, fraktion |-> <<>>]),
                Err(house_number_id.err))
    ELSE Await(f, [ep |-> "nuremberg/fraktionen",
                   house_number_id |-> house_number_id.value, fraktion |-> <<>>])

\* schedule, up to the request of the fractions.
NurembergScheduleStart(f, address_id, range) ==
    LET house_number_id == NurembergDecodeId(address_id) IN
    IF ~house_number_id.ok THEN Finish(f, Err(house_number_id.err))
    ELSE Await(f, [ep |-> "nuremberg/fraktionen",
                   house_number_id |-> house_number_id.value, fraktion |-> <<>>])

\* Mutant: the pickups are requested without the fraktion parameters.
NurembergFractionsResumeNoFraktion(f, outcome) ==
    LET fractions == FetchJson(outcome)
        g == Received(f, outcome)
    IN  IF ~fractions.ok THEN Finish(g, Err(fractions.err))
        ELSE Await(g, [ep |-> "nuremberg/termine",
                       house_number_id |-> f.reqs[Len(f.reqs)].house_number_id,
                       fraktion |-> <<>>])

\* schedule, from the response of /fraktionen to the request of the pickups.
NurembergFractionsResume(f, outcome) ==
    LET fractions == FetchJson(outcome)
        g == Received(f, outcome)
    IN  IF ~fractions.ok THEN Finish(g, Err(fractions.err))
        ELSE Await(g, [ep |-> "nuremberg/termine",
                       house_number_id |-> f.reqs[Len(f.reqs)].house_number_id,
                       fraktion |-> [i \in 1..Len(fractions.value) |->
                                        fractions.value[i].id]])

\* The fraction and the note of one pickup.
NurembergFraction(pickup, fractions) ==
    IF pickup.district.some
    THEN LET name_opt == FractionName(fractions, pickup.district.val) IN
         IF name_opt.some THEN <<name_opt, map_fraction(name_opt.val)>>
         ELSE <<name_opt,
                Other(Chars("Fraction ") \o NatToString(pickup.district.val))>>
    ELSE <<None, Other(Chars("Unknown fraction"))>>

\* The loop over the pickups: the events pushed, or the first error.
RECURSIVE NurembergEvents(_, _, _, _)
NurembergEvents(pickups, fractions, range, events) ==
    IF pickups = <<>> THEN Ok(events)
    ELSE LET pickup == Head(pickups)
             date == ParseFromStr(pickup.date)
         IN  IF ~date.ok THEN Err(date.err)
             ELSE IF OutOfRange(date.value, range)
             THEN NurembergEvents(Tail(pickups), fractions, range, events)
             ELSE NurembergEvents(Tail(pickups), fractions, range,
                      Append(events,
                             [date |-> date.value,
                              fraction |-> NurembergFraction(pickup, fractions)[2],
                              note |-> NurembergFraction(pickup, fractions)[1]]))

\* schedule, from the response of /termine to its return (no sort).
NurembergPickupsResume(f, outcome) ==
    LET pickups == FetchJson(outcome)
        g == Received(f, outcome)
        fractions == f.resps[Len(f.resps)].data
    IN  IF ~pickups.ok THEN Finish(g, Err(pickups.err))
        ELSE LET events == NurembergEvents(pickups.value, fractions,
                                           f.args.range, <<>>)
             IN  IF ~events.ok THEN Finish(g, Err(events.err))
                 ELSE Finish(g, Ok(events.value))

\* Backend data: fraction lists (one with an id listed twice) and pickups
\* with valid, invalid and malformed dates, known and unknown fractions.
NurembergFractionLists ==
    {<<>>,
     <<[id |-> 1, name |-> Chars("Restabfall")], [id |-> 2, name |-> Chars("BIO")]>>,
     <<[id |-> 1, name |-> Chars("Glas")], [id |-> 1, name |-> Chars("Xyz")]>>}

NurembergFractionsResponses ==
    {Failed(k) : k \in FetchFailures} \cup {Fetched(d) : d \in NurembergFractionLists}

NurembergPickups ==
    {[date |-> Chars("2025-01-15"), district |-> Some(1)],
     [date |-> Chars("2024-12-15"), district |-> Some(2)],
     [date |-> Chars("2024-12-31"), district |-> None],
     [date |-> Chars("2025-01-16"), district |-> Some(1)],
     [date |-> Chars("2025-02-30"), district |-> Some(1)],
     [date |-> Chars("15.01.2025"), district |-> Some(2)]}

NurembergPickupsResponses ==
    {Failed(k) : k \in FetchFailures}
        \cup {Fetched(d) : d \in SeqsUpTo(NurembergPickups, MaxEntries)}

(***************************************************************************)
(* The service facade (tonneli-core/src/service.rs).                       *)
(***************************************************************************)
Streets == {<<>>, Chars(" \t"), Chars("ab"), Chars(" Ab ")}
HouseNumbers == {None, Some(Chars(" ")), Some(Chars(" 1a"))}
Queries == [street : Streets, house_number : HouseNumbers]
Limits == 0..MaxLimit

\* The address ids callers pass: ids that a search of Cologne or of Nuremberg
\* returns, and strings that no search returns.
ForeignIds == {<<>>, Chars("a:b"), Chars("+7"), Chars("x")}
AddressIds ==
    {CologneEncodeId(e) : e \in CologneStreetEntries}
        \cup {NurembergEncodeId(hn) : hn \in NurembergHouseNumbers}
        \cup ForeignIds

\* plugin.address_port.search(&query, limit): dynamic dispatch on the port.
AddressPortSearch(port, f, query, limit) ==
    LET g == [f EXCEPT !.invoked =
                  Append(@, [port |-> port, op |-> "search",
                             args |-> [NoArgs EXCEPT !.query = query,
                                                     !.limit = limit],
                             returned |-> NoResult])]
    IN  IF port = "cologne" THEN CologneSearchStart(g, query, limit)
        ELSE NurembergSearchStart(g, query, limit)

\* plugin.schedule_port.schedule(address_id, range)
SchedulePortSchedule(port, f, address_id, range) ==
    LET g == [f EXCEPT !.invoked =
                  Append(@, [port |-> port, op |-> "schedule",
                             args |-> [NoArgs EXCEPT !.address_id = address_id,
                                                     !.range = range],
                             returned |-> NoResult])]
    IN  IF port = "cologne" THEN CologneScheduleStart(g, address_id, range)
        ELSE NurembergScheduleStart(g, address_id, range)

\* Mutant: the adapters keep the limit in a slot shared by the outstanding
\* searches; a search started while another one waits runs with that limit.
SearchAddressesSharedLimit(c, city, query, limit) ==
    /\ calls[c].pc = "idle"
    /\ LET others == {d \in DOMAIN calls :
                          d # c /\ calls[d].op = "search" /\ calls[d].pc = "await"}
           shared == IF others = {} THEN limit
                     ELSE calls[CHOOSE d \in others : TRUE].args.limit
           f == [IdleFrame EXCEPT !.op = "search", !.city = city,
                     !.args = [NoArgs EXCEPT !.query = query, !.limit = limit]]
           plugin == RegistryPlugin(registry, city)
       IN  calls' = [calls EXCEPT ![c] =
               IF ~plugin.ok THEN FacadeReturn(f, Err(plugin.err))
               ELSE AddressPortSearch(plugin.value.address_port, f, query, shared)]
    /\ UNCHANGED fixed

SearchAddresses(c, city, query, limit) ==
    /\ calls[c].pc = "idle"
    /\ LET f == [IdleFrame EXCEPT !.op = "search", !.city = city,
                     !.args = [NoArgs EXCEPT !.query = query, !.limit = limit]]
           plugin == RegistryPlugin(registry, city)
       IN  calls' = [calls EXCEPT ![c] =
               IF ~plugin.ok THEN FacadeReturn(f, Err(plugin.err))
               ELSE AddressPortSearch(plugin.value.address_port, f, query, limit)]
    /\ UNCHANGED fixed

ScheduleFor(c, city, address_id, range) ==
    /\ calls[c].pc = "idle"
    /\ LET f == [IdleFrame EXCEPT !.op = "schedule", !.city = city,
                     !.args = [NoArgs EXCEPT !.address_id = address_id,
                                             !.range = range]]
           plugin == RegistryPlugin(registry, city)
       IN  calls' = [calls EXCEPT ![c] =
               IF ~plugin.ok THEN FacadeReturn(f, Err(plugin.err))
               ELSE SchedulePortSchedule(plugin.value.schedule_port, f,
                                         address_id, range)]
    /\ UNCHANGED fixed

\* The request a suspended call waits for.
Pending(c) == calls[c].reqs[Len(calls[c].reqs)]

BackendResponse(c, ep, Responses, Resume(_, _)) ==
    /\ calls[c].pc = "await"
    /\ Pending(c).ep = ep
    /\ \E outcome \in Responses :
           calls' = [calls EXCEPT ![c] = Resume(calls[c], outcome)]
    /\ UNCHANGED fixed

CologneSearchResponse(c) ==
    BackendResponse(c, "cologne/streets", CologneStreetsResponses,
                    CologneSearchResume)

CologneScheduleResponse(c) ==
    BackendResponse(c, "cologne/calendar", CologneCalendarResponses,
                    CologneScheduleResume)

NurembergStreetsResponse(c) ==
    BackendResponse(c, "nuremberg/strassen", NurembergStreetsResponses,
                    NurembergStreetsResume)

NurembergDetailResponse(c) ==
    BackendResponse(c, "nuremberg/strasse", NurembergDetailResponses,
                    NurembergDetailResume)

NurembergFractionsResponse(c) ==
    BackendResponse(c, "nuremberg/fraktionen", NurembergFractionsResponses,
                    NurembergFractionsResume)

NurembergPickupsResponse(c) ==
    BackendResponse(c, "nuremberg/termine", NurembergPickupsResponses,
                    NurembergPickupsResume)

\* The caller takes the result; the slot is free for the next call.
Return(c) ==
    /\ calls[c].pc = "done"
    /\ calls' = [calls EXCEPT ![c] = IdleFrame]
    /\ UNCHANGED fixed

(***************************************************************************)
(* The App of the terminal UI (tonneli-tui/src/app.rs).  `action` is the   *)
(* Action that run() took from handle_key_event and has not yet carried    *)
(* out; `running` is false once run() has left its loop; `searched_city`   *)
(* records the city of the search that address_results was taken from.     *)
(***************************************************************************)
\* App::new(service)
AppNew(cities) ==
    [screen |-> "CitySelect", cities |-> cities, city_list_index |-> 0,
     selected_city |-> None, address_input |-> <<>>, address_results |-> <<>>,
     address_list_index |-> 0, selected_address |-> None, pickups |-> <<>>,
     is_loading |-> FALSE, error_message |-> None,
     action |-> "None", running |-> TRUE, searched_city |-> None]

(***************************************************************************)
(* Specification: one caller, any plugin list.                             *)
(***************************************************************************)
Init ==
    /\ plugins \in PluginLists
    /\ registry = PluginRegistryNew(plugins)
    /\ calls = [c \in {1} |-> IdleFrame]
    /\ app = AppNew(<<>>)

\* A caller starts a search with any city, query and limit.
CallSearchAddresses ==
    \E c \in DOMAIN calls, city \in CityIds, query \in Queries, limit \in Limits :
        SearchAddresses(c, city, query, limit)

\* A caller starts a schedule fetch with any city, address id and range.
CallScheduleFor ==
    \E c \in DOMAIN calls, city \in CityIds, address_id \in AddressIds,
       range \in Ranges :
        ScheduleFor(c, city, address_id, range)

CologneStreets == \E c \in DOMAIN calls : CologneSearchResponse(c)
CologneCalendar == \E c \in DOMAIN calls : CologneScheduleResponse(c)
NurembergStrassen == \E c \in DOMAIN calls : NurembergStreetsResponse(c)
NurembergStrasse == \E c \in DOMAIN calls : NurembergDetailResponse(c)
NurembergFraktionen == \E c \in DOMAIN calls : NurembergFractionsResponse(c)
NurembergTermine == \E c \in DOMAIN calls : NurembergPickupsResponse(c)
CallReturn == \E c \in DOMAIN calls : Return(c)

Next ==
    \/ CallSearchAddresses
    \/ CallScheduleFor
    \/ CologneStreets
    \/ CologneCalendar
    \/ NurembergStrassen
    \/ NurembergStrasse
    \/ NurembergFraktionen
    \/ NurembergTermine
    \/ CallReturn

Spec == Init /\ [][Next]_vars

(***************************************************************************)
(* Specification of the fraction mapping: schedule fetches of one address  *)
(* and range whose backend answers with one pickup of any category.        *)
(***************************************************************************)
UpperChar(c) ==
    IF \E i \in 1..Len(LowerAlphabet) : LowerAlphabet[i] = c
    THEN UpperAlphabet[CHOOSE i \in 1..Len(LowerAlphabet) : LowerAlphabet[i] = c]
    ELSE c

Capitalize(s) == [i \in 1..Len(s) |-> IF i = 1 THEN UpperChar(s[i]) ELSE s[i]]
ToUppercase(s) == [i \in 1..Len(s) |-> UpperChar(s[i])]

\* Category strings of the backends: every keyword of the two mappings and
\* two words that are none, in three spellings, alone, inside a longer name
\* and next to a second keyword.
CategoryWords ==
    {Chars("grey"), Chars("blue"), Chars("wertstoff"), Chars("brown"),
     Chars("rest"), Chars("bio"), Chars("papier"), Chars("pappe"), Chars("gelb"),
     Chars("leichtverpackung"), Chars("lvp"), Chars("glas"), Chars("metall"),
     Chars("schrott"), Chars("xyz"), <<>>}

CategoryStrings ==
    {prefix \o spelt \o suffix :
        prefix \in {<<>>, Chars("Alt"), Chars("Bio/")},
        spelt \in UNION {{w, Capitalize(w), ToUppercase(w)} : w \in CategoryWords},
        suffix \in {<<>>, Chars("tonne"), Chars("/Rest")}}

CategoryRange == [start |-> <<2024, 12, 15>>, end |-> <<2025, 1, 15>>]

CategoryCalendarResponses ==
    {Fetched(<<[year |-> 2025, month |-> 1, day |-> 15, typ |-> t]>>) :
        t \in CategoryStrings}

CategoryFractionsResponses ==
    {Fetched(<<[id |-> 1, name |-> n]>>) : n \in CategoryStrings}

CategoryPickupsResponses ==
    {Fetched(<<[date |-> Chars("2025-01-15"), district |-> d]>>) :
        d \in {None, Some(1), Some(2)}}

CategoryScheduleFor ==
    \E c \in DOMAIN calls :
        \/ ScheduleFor(c, "cologne", Chars("7:1:"), CategoryRange)
        \/ ScheduleFor(c, "nuremberg", Chars("7"), CategoryRange)

CategoryCalendar ==
    \E c \in DOMAIN calls :
        BackendResponse(c, "cologne/calendar", CategoryCalendarResponses,
                        CologneScheduleResume)

CategoryFraktionen ==
    \E c \in DOMAIN calls :
        BackendResponse(c, "nuremberg/fraktionen", CategoryFractionsResponses,
                        NurembergFractionsResume)

CategoryTermine ==
    \E c \in DOMAIN calls :
        BackendResponse(c, "nuremberg/termine", CategoryPickupsResponses,
                        NurembergPickupsResume)

NextCategories ==
    \/ CategoryScheduleFor
    \/ CategoryCalendar
    \/ CategoryFraktionen
    \/ CategoryTermine
    \/ CallReturn

SpecCategories == Init /\ [][NextCategories]_vars

(***************************************************************************)
(* Specification of the registry: any plugin list of up to MaxPlugins      *)
(* bundles, two of which share a CityId, and the read operations on it.    *)
(***************************************************************************)
MaxPlugins == 3

\* A bundle a caller built with Cologne's id and another display name.
CologneRenamedPlugin == [ColognePlugin EXCEPT !.meta.name = "Cologne"]

PluginBundles == {ColognePlugin, NurembergPlugin, CologneRenamedPlugin}

InitRegistry ==
    /\ plugins \in SeqsUpTo(PluginBundles, MaxPlugins)
    /\ registry = PluginRegistryNew(plugins)
    /\ calls = [c \in {1} |-> IdleFrame]
    /\ app = AppNew(<<>>)

\* registry.cities()
CallRegistryCities ==
    \E c \in DOMAIN calls, order \in KeyOrders(registry) :
        /\ calls[c].pc = "idle"
        /\ calls' = [calls EXCEPT ![c] =
               FacadeReturn([IdleFrame EXCEPT !.op = "registry.cities"],
                            Ok(RegistryCities(registry, order)))]
        /\ UNCHANGED fixed

\* service.cities()
CallServiceCities ==
    \E c \in DOMAIN calls, order \in KeyOrders(registry) :
        /\ calls[c].pc = "idle"
        /\ calls' = [calls EXCEPT ![c] =
               FacadeReturn([IdleFrame EXCEPT !.op = "service.cities"],
                            Ok(ServiceCities(registry, order)))]
        /\ UNCHANGED fixed

\* registry.plugin(&city)
CallRegistryPlugin ==
    \E c \in DOMAIN calls, city \in CityIds :
        /\ calls[c].pc = "idle"
        /\ calls' = [calls EXCEPT ![c] =
               FacadeReturn([IdleFrame EXCEPT !.op = "registry.plugin",
                                              !.city = city],
                            RegistryPlugin(registry, city))]
        /\ UNCHANGED fixed

NextRegistry ==
    \/ CallRegistryCities
    \/ CallServiceCities
    \/ CallRegistryPlugin
    \/ CallReturn

SpecRegistry == InitRegistry /\ [][NextRegistry]_vars

(***************************************************************************)
(* Specification of concurrent callers: MaxCallers calls of the shared     *)
(* service are outstanding at once and their backend responses arrive in   *)
(* any order.                                                              *)
(***************************************************************************)
MaxCallers == 2

InitConcurrent ==
    /\ plugins = <<ColognePlugin, NurembergPlugin>>
    /\ registry = PluginRegistryNew(plugins)
    /\ calls = [c \in 1..MaxCallers |-> IdleFrame]
    /\ app = AppNew(<<>>)

ConcurrentQuery == [street |-> Chars("ab"), house_number |-> None]

\* The callers search Cologne with limit 1 and Nuremberg with limit 2.
ConcurrentSearch ==
    \E c \in DOMAIN calls :
        \/ SearchAddresses(c, "cologne", ConcurrentQuery, 1)
        \/ SearchAddresses(c, "nuremberg", ConcurrentQuery, 2)

ConcurrentSchedule ==
    \E c \in DOMAIN calls :
        \/ ScheduleFor(c, "cologne", Chars("7:1:"), CategoryRange)
        \/ ScheduleFor(c, "nuremberg", Chars("7"), CategoryRange)

ConcurrentStreets ==
    \E c \in DOMAIN calls :
        BackendResponse(c, "cologne/streets",
            {Failed("status")}
                \cup {Fetched(<<e1, e2>>) :
                        e1 \in {e \in CologneStreetEntries : e.street_code = Chars("8")},
                        e2 \in {e \in CologneStreetEntries : e.street_code = Chars("7")}},
            CologneSearchResume)

ConcurrentCalendar ==
    \E c \in DOMAIN calls :
        BackendResponse(c, "cologne/calendar",
            {Failed("status"),
             Fetched(<<[year |-> 2025, month |-> 1, day |-> 15, typ |-> Chars("Brown")],
                       [year |-> 2024, month |-> 12, day |-> 15, typ |-> Chars("Xyz")]>>)},
            CologneScheduleResume)

ConcurrentStrassen ==
    \E c \in DOMAIN calls :
        BackendResponse(c, "nuremberg/strassen",
            {Fetched(l) : l \in {l \in NurembergStreetLists : Len(l) = 2}},
            NurembergStreetsResume)

ConcurrentStrasse ==
    \E c \in DOMAIN calls :
        BackendResponse(c, "nuremberg/strasse",
            {Failed("decode"),
             Fetched(<<[id |-> I64(FALSE, 0, 7), number |-> Chars("2")]>>)},
            NurembergDetailResume)

ConcurrentFraktionen ==
    \E c \in DOMAIN calls :
        BackendResponse(c, "nuremberg/fraktionen",
            {Fetched(l) : l \in {l \in NurembergFractionLists : Len(l) = 2}},
            NurembergFractionsResume)

ConcurrentTermine ==
    \E c \in DOMAIN calls :
        BackendResponse(c, "nuremberg/termine",
            {Failed("transport"),
             Fetched(<<[date |-> Chars("2025-01-15"), district |-> Some(1)],
                       [date |-> Chars("2024-12-15"), district |-> Some(2)]>>)},
            NurembergPickupsResume)

NextConcurrent ==
    \/ ConcurrentSearch
    \/ ConcurrentSchedule
    \/ ConcurrentStreets
    \/ ConcurrentCalendar
    \/ ConcurrentStrassen
    \/ ConcurrentStrasse
    \/ ConcurrentFraktionen
    \/ ConcurrentTermine
    \/ CallReturn

SpecConcurrent == InitConcurrent /\ [][NextConcurrent]_vars

(***************************************************************************)
(* Specification: the terminal UI (tonneli-tui).  run() handles one key    *)
(* event per iteration and awaits the service call an Action asks for      *)
(* before it polls the next key.                                           *)
(***************************************************************************)
MaxInput == 3

\* The key events polled: code, character of a Char, CONTROL held.
Keys ==
    {[code |-> k, ch |-> "", ctrl |-> FALSE] :
        k \in {"Up", "Down", "Enter", "Right", "Tab", "Left", "Esc", "Backspace"}}
        \cup {[code |-> "Char", ch |-> ch, ctrl |-> FALSE] : ch \in {"b", " ", "1", "q"}}
        \cup {[code |-> "Char", ch |-> ch, ctrl |-> TRUE] : ch \in {"b", "c"}}

\* App::current_range: today and sixty days later, for the days the UI runs on.
CurrentRanges == {[start |-> <<2024, 12, 15>>, end |-> <<2025, 2, 13>>]}

\* App::select_current_city
select_current_city(a) ==
    IF a.city_list_index < Len(a.cities)
    THEN [a EXCEPT !.selected_city = Some(a.cities[a.city_list_index + 1][1]),
                   !.screen = "AddressSearch"]
    ELSE a

\* App::select_current_address: the address taken, if any, and the App after.
select_current_address(a) ==
    IF a.address_list_index < Len(a.address_results)
    THEN [addr |-> Some(a.address_results[a.address_list_index + 1]),
          app |-> [a EXCEPT !.selected_address =
                                Some(a.address_results[a.address_list_index + 1]),
                            !.screen = "ScheduleView"]]
    ELSE [addr |-> None, app |-> a]

\* handle_key_event, Screen::CitySelect
CitySelectKey(key, a) ==
    IF key.code = "Up" \/ (key.code = "Char" /\ key.ch = "k")
    THEN IF a.city_list_index > 0 THEN [a EXCEPT !.city_list_index = @ - 1] ELSE a
    ELSE IF key.code = "Down" \/ (key.code = "Char" /\ key.ch = "j")
    THEN IF a.city_list_index + 1 < Len(a.cities)
         THEN [a EXCEPT !.city_list_index = @ + 1] ELSE a
    ELSE IF key.code = "Enter" \/ (key.code = "Char" /\ key.ch = " ")
    THEN select_current_city(a)
    ELSE a

\* Mutant: Left/Esc clears the results and leaves the index where it was.
AddressSearchKeyKeepsIndex(key, a) ==
    CASE key.code = "Up" ->
            IF a.address_list_index > 0
            THEN [a EXCEPT !.address_list_index = @ - 1] ELSE a
      [] key.code = "Down" ->
            IF a.address_list_index + 1 < Len(a.address_results)
            THEN [a EXCEPT !.address_list_index = @ + 1] ELSE a
      [] key.code = "Char" ->
            IF ~key.ctrl THEN [a EXCEPT !.address_input = Append(@, key.ch)] ELSE a
      [] key.code = "Backspace" ->
            [a EXCEPT !.address_input =
                IF @ = <<>> THEN @ ELSE SubSeq(@, 1, Len(@) - 1)]
      [] key.code = "Enter" -> [a EXCEPT !.action = "SearchAddresses"]
      [] key.code \in {"Right", "Tab"} ->
            [a EXCEPT !.action = "LoadScheduleForCurrentAddress"]
      [] key.code \in {"Left", "Esc"} ->
            [a EXCEPT !.screen = "CitySelect", !.address_results = <<>>,
                      !.searched_city = None]
      [] OTHER -> a

\* Mutant: Left/Esc goes back to the city screen and keeps the results.
AddressSearchKeyKeepsResults(key, a) ==
    CASE key.code = "Up" ->
            IF a.address_list_index > 0
            THEN [a EXCEPT !.address_list_index = @ - 1] ELSE a
      [] key.code = "Down" ->
            IF a.address_list_index + 1 < Len(a.address_results)
            THEN [a EXCEPT !.address_list_index = @ + 1] ELSE a
      [] key.code = "Char" ->
            IF ~key.ctrl THEN [a EXCEPT !.address_input = Append(@, key.ch)] ELSE a
      [] key.code = "Backspace" ->
            [a EXCEPT !.address_input =
                IF @ = <<>> THEN @ ELSE SubSeq(@, 1, Len(@) - 1)]
      [] key.code = "Enter" -> [a EXCEPT !.action = "SearchAddresses"]
      [] key.code \in {"Right", "Tab"} ->
            [a EXCEPT !.action = "LoadScheduleForCurrentAddress"]
      [] key.code \in {"Left", "Esc"} ->
            [a EXCEPT !.screen = "CitySelect", !.address_list_index = 0]
      [] OTHER -> a

\* handle_key_event, Screen::AddressSearch
AddressSearchKey(key, a) ==
    CASE key.code = "Up" ->
            IF a.address_list_index > 0
            THEN [a EXCEPT !.address_list_index = @ - 1] ELSE a
      [] key.code = "Down" ->
            IF a.address_list_index + 1 < Len(a.address_results)
            THEN [a EXCEPT !.address_list_index = @ + 1] ELSE a
      [] key.code = "Char" ->
            IF ~key.ctrl THEN [a EXCEPT !.address_input = Append(@, key.ch)] ELSE a
      [] key.code = "Backspace" ->
            [a EXCEPT !.address_input =
                IF @ = <<>> THEN @ ELSE SubSeq(@, 1, Len(@) - 1)]
      [] key.code = "Enter" -> [a EXCEPT !.action = "SearchAddresses"]
      [] key.code \in {"Right", "Tab"} ->
            [a EXCEPT !.action = "LoadScheduleForCurrentAddress"]
      [] key.code \in {"Left", "Esc"} ->
            [a EXCEPT !.screen = "CitySelect", !.address_results = <<>>,
                      !.address_list_index = 0, !.searched_city = None]
      [] OTHER -> a

\* handle_key_event, Screen::ScheduleView
ScheduleViewKey(key, a) ==
    IF key.code \in {"Left", "Esc"} \/ (key.code = "Char" /\ key.ch = "b")
    THEN [a EXCEPT !.screen = "AddressSearch"]
    ELSE a

\* handle_key_event(key, app): the App after, its `action` the Action returned.
handle_key_event(key, a) ==
    IF key.code = "Char" /\ key.ch = "c" /\ key.ctrl THEN [a EXCEPT !.action = "Quit"]
    ELSE IF key.code = "Char" /\ key.ch = "q" /\ ~key.ctrl
    THEN [a EXCEPT !.action = "Quit"]
    ELSE CASE a.screen = "CitySelect" -> CitySelectKey(key, a)
           [] a.screen = "AddressSearch" -> AddressSearchKey(key, a)
           [] a.screen = "ScheduleView" -> ScheduleViewKey(key, a)

\* str::split_whitespace
RECURSIVE SplitWhitespace(_)
SplitWhitespace(s) ==
    LET t == TrimStart(s) IN
    IF t = <<>> THEN <<>>
    ELSE LET n == CHOOSE i \in 1..(Len(t) + 1) :
                      /\ i = Len(t) + 1 \/ IsWhitespace(t[i])
                      /\ \A j \in 1..(i - 1) : ~IsWhitespace(t[j])
         IN  <<SubSeq(t, 1, n - 1)>> \o SplitWhitespace(SubSeq(t, n, Len(t)))

\* [&str]::join(" ")
RECURSIVE JoinSpace(_)
JoinSpace(parts) ==
    IF parts = <<>> THEN <<>>
    ELSE IF Len(parts) = 1 THEN parts[1]
    ELSE parts[1] \o <<" ">> \o JoinSpace(Tail(parts))

parse_search_input(input) ==
    LET parts == SplitWhitespace(input) IN
    IF parts = <<>> THEN [street |-> <<>>, house_number |-> None]
    ELSE LET last == parts[Len(parts)]
             street_parts == SubSeq(parts, 1, Len(parts) - 1)
             has_number == /\ \E i \in 1..Len(last) : IsDigit(last[i])
                           /\ street_parts # <<>>
         IN  IF has_number
             THEN [street |-> JoinSpace(street_parts), house_number |-> Some(last)]
             ELSE [street |-> JoinSpace(parts), house_number |-> None]

\* The service is built on an empty registry or on the two providers'.
InitTui ==
    /\ plugins \in {<<>>, <<ColognePlugin, NurembergPlugin>>}
    /\ registry = PluginRegistryNew(plugins)
    /\ calls = [c \in {1} |-> IdleFrame]
    /\ \E order \in KeyOrders(registry) : app = AppNew(ServiceCities(registry, order))

\* One iteration of run()'s loop, to its end or to the service call it awaits.
TuiKey ==
    /\ app.running
    /\ app.action = "None"
    /\ \E key \in Keys :
        /\ key.code = "Char" /\ ~key.ctrl /\ key.ch # "q" /\ app.screen = "AddressSearch"
               => Len(app.address_input) < MaxInput
        /\ LET a == handle_key_event(key, app)
               picked == select_current_address(a)
           IN  app' =
                 CASE a.action = "Quit" -> [a EXCEPT !.action = "None", !.running = FALSE]
                   [] a.action = "None" -> a
                   [] a.action = "SearchAddresses" ->
                        IF Trim(a.address_input) = <<>>
                        THEN [a EXCEPT !.action = "None",
                                       !.error_message = Some(<<"Type a street">>)]
                        ELSE IF ~a.selected_city.some
                        THEN [a EXCEPT !.action = "None",
                                       !.error_message = Some(<<"Select a city first">>)]
                        ELSE [a EXCEPT !.is_loading = TRUE, !.error_message = None]
                   [] a.action = "LoadScheduleForCurrentAddress" ->
                        IF ~a.selected_city.some
                        THEN [a EXCEPT !.action = "None",
                                       !.error_message = Some(<<"Select a city first">>)]
                        ELSE IF ~picked.addr.some
                        THEN [a EXCEPT !.action = "None",
                                       !.error_message = Some(<<"No address selected">>)]
                        ELSE [picked.app EXCEPT !.is_loading = TRUE,
                                                !.error_message = None]
    /\ UNCHANGED <<plugins, registry, calls>>

\* app.service.search_addresses(city, query, 50)
TuiSearch ==
    /\ app.action = "SearchAddresses"
    /\ SearchAddresses(1, app.selected_city.val,
                       parse_search_input(Trim(app.address_input)), 50)

\* app.service.schedule_for(city, &addr.id, range)
TuiSchedule ==
    /\ app.action = "LoadScheduleForCurrentAddress"
    /\ \E range \in CurrentRanges :
           ScheduleFor(1, app.selected_city.val, app.selected_address.val.id, range)

\* The backends' answers to the requests of the awaited call.
TuiStreets ==
    \E c \in DOMAIN calls : BackendResponse(c, "cologne/streets",
        {Failed("status")}
            \cup {Fetched(l) : l \in
                    {l \in SeqsUpTo(CologneStreetEntries, 2) :
                        /\ l # <<>>
                        /\ l[1].street_code = Chars("7") /\ l[1].user_street_name = <<>>
                        /\ Len(l) = 2 => l[2].street_code = Chars("7:1")}},
        CologneSearchResume)

TuiCalendar ==
    \E c \in DOMAIN calls : BackendResponse(c, "cologne/calendar",
        {Failed("status"),
         Fetched(<<[year |-> 2025, month |-> 1, day |-> 15, typ |-> Chars("Brown")]>>)},
        CologneScheduleResume)

TuiStrassen ==
    \E c \in DOMAIN calls : BackendResponse(c, "nuremberg/strassen",
        {Fetched(l) : l \in {l \in NurembergStreetLists : Len(l) = 2}},
        NurembergStreetsResume)

TuiStrasse ==
    \E c \in DOMAIN calls : BackendResponse(c, "nuremberg/strasse",
        {Failed("decode"),
         Fetched(<<[id |-> I64(FALSE, 0, 7), number |-> Chars("2")]>>)},
        NurembergDetailResume)

TuiFraktionen ==
    \E c \in DOMAIN calls : BackendResponse(c, "nuremberg/fraktionen",
        {Fetched(l) : l \in {l \in NurembergFractionLists : Len(l) = 2}},
        NurembergFractionsResume)

TuiTermine ==
    \E c \in DOMAIN calls : BackendResponse(c, "nuremberg/termine",
        {Failed("transport"),
         Fetched(<<[date |-> Chars("2025-01-15"), district |-> Some(1)]>>)},
        NurembergPickupsResume)

\* run() after search_addresses returned.
TuiSearchDone ==
    /\ app.action = "SearchAddresses"
    /\ calls[1].pc = "done"
    /\ LET res == calls[1].result
           a == [app EXCEPT !.action = "None", !.is_loading = FALSE]
       IN  app' = IF res.ok
                  THEN [a EXCEPT !.address_results = res.value,
                                 !.address_list_index = 0,
                                 !.selected_address = None,
                                 !.searched_city = Some(calls[1].city)]
                  ELSE [a EXCEPT !.error_message = Some(<<"Search failed", res.err>>)]
    /\ calls' = [calls EXCEPT ![1] = IdleFrame]
    /\ UNCHANGED <<plugins, registry>>

\* run() after schedule_for returned.
TuiScheduleDone ==
    /\ app.action = "LoadScheduleForCurrentAddress"
    /\ calls[1].pc = "done"
    /\ LET res == calls[1].result
           a == [app EXCEPT !.action = "None", !.is_loading = FALSE]
       IN  app' = IF res.ok
                  THEN [a EXCEPT !.pickups = res.value]
                  ELSE [a EXCEPT !.pickups = <<>>,
                                 !.error_message =
                                     Some(<<"Failed to load schedule", res.err>>)]
    /\ calls' = [calls EXCEPT ![1] = IdleFrame]
    /\ UNCHANGED <<plugins, registry>>

NextTui ==
    \/ TuiKey
    \/ TuiSearch
    \/ TuiSchedule
    \/ TuiStreets
    \/ TuiCalendar
    \/ TuiStrassen
    \/ TuiStrasse
    \/ TuiFraktionen
    \/ TuiTermine
    \/ TuiSearchDone
    \/ TuiScheduleDone

SpecTui == InitTui /\ [][NextTui]_vars

(***************************************************************************)
(* Properties.                                                             *)
(***************************************************************************)
\* The frames of calls that have returned / that returned Ok.
Returned(op) == {c \in DOMAIN calls : calls[c].pc = "done" /\ calls[c].op = op}
Succeeded(op) == {c \in Returned(op) : calls[c].result.ok}

\* The adapter whose port serves the call c.
PortOf(c) == calls[c].invoked[1].port

NonDecreasingByDate(events) ==
    \A i \in 1..(Len(events) - 1) : ~DateLt(events[i + 1].date, events[i].date)

\* C1: every successful schedule fetch, by either adapter and for any order
\* of the backend's entries, returns its events non-decreasing by date.
C1_ScheduleSortedByDate ==
    \A c \in Succeeded("schedule") : NonDecreasingByDate(calls[c].result.value)

\* The backend data a search turned into addresses: Cologne's street entries,
\* Nuremberg's house numbers of every street-detail response.
SearchedEntries(c) ==
    UNION {{calls[c].resps[k].data[i] : i \in 1..Len(calls[c].resps[k].data)} :
           k \in {k \in 1..Len(calls[c].resps) :
                     calls[c].reqs[k].ep \in {"cologne/streets", "nuremberg/strasse"}}}

ReturnedIds(c) ==
    {calls[c].result.value[i].id : i \in 1..Len(calls[c].result.value)}

\* The id decodes, in the provider's schedule, to the keys of the entry.
RoundTrips(port, entry) ==
    IF port = "cologne"
    THEN /\ CologneDecodeId(CologneEncodeId(entry)).ok
         /\ CologneDecodeId(CologneEncodeId(entry)).value =
                [street_code |-> entry.street_code,
                 building_number |-> entry.building_number,
                 building_number_addition |-> entry.building_number_addition]
    ELSE /\ NurembergDecodeId(NurembergEncodeId(entry)).ok
         /\ I64FromI32(NurembergDecodeId(NurembergEncodeId(entry)).value) = entry.id

EncodeId(port, entry) ==
    IF port = "cologne" THEN CologneEncodeId(entry) ELSE NurembergEncodeId(entry)

\* C2: every AddressId a search returns is accepted by the same provider's
\* schedule, which decodes from it the backend keys that search encoded.
C2_AddressIdRoundTrip ==
    \A c \in Succeeded("search") :
        \A entry \in SearchedEntries(c) :
            EncodeId(PortOf(c), entry) \in ReturnedIds(c) =>
                RoundTrips(PortOf(c), entry)

\* The city of the call c has a plugin in the registry.
Registered(c) == calls[c].city \in DOMAIN registry

Count(seq, ch) == Cardinality({i \in 1..Len(seq) : seq[i] = ch})

\* The strings CologneEncodeId can return: two separators at least.  The
\* strings NurembergEncodeId can return: the decimal text of an integer.
ProducedBy(port, id) ==
    IF port = "cologne" THEN Count(id, ":") >= 2
    ELSE LET digits == IF id # <<>> /\ Head(id) = "-" THEN Tail(id) ELSE id IN
         /\ digits # <<>>
         /\ \A i \in 1..Len(digits) : IsDigit(digits[i])
         /\ Len(digits) > 1 => Head(digits) # "0"
         /\ id # Chars("-0")

\* C3 as stated: schedule_for for a registered city with an address id that
\* the city's own adapter did not produce fails with InvalidAddressId.
C3_ForeignIdRejected ==
    \A c \in Returned("schedule") :
        Registered(c) /\ ~ProducedBy(PortOf(c), calls[c].args.address_id) =>
            calls[c].result = Err("InvalidAddressId")

RECURSIVE StripZeros(_)
StripZeros(digits) ==
    IF Len(digits) > 1 /\ Head(digits) = "0" THEN StripZeros(Tail(digits)) ELSE digits

\* The text is an optional sign and decimal digits of a value in the i32 range.
IsI32Text(id) ==
    LET digits == IF id # <<>> /\ Head(id) \in {"+", "-"} THEN Tail(id) ELSE id
        most == IF id # <<>> /\ Head(id) = "-"
                THEN Chars("2147483648") ELSE Chars("2147483647")
    IN  /\ digits # <<>>
        /\ \A i \in 1..Len(digits) : IsDigit(digits[i])
        /\ \/ Len(StripZeros(digits)) < Len(most)
           \/ Len(StripZeros(digits)) = Len(most) /\ ~StrLt(most, StripZeros(digits))

Undecodable(port, id) ==
    IF port = "cologne" THEN Count(id, ":") = 0 ELSE ~IsI32Text(id)

\* C3 (amended): schedule_for for a registered city with an address id that
\* the city's adapter cannot decode (Cologne: no ':' in it; Nuremberg: not the
\* text of a 32-bit signed integer), as is every id of the other city's
\* adapter, fails with InvalidAddressId and never returns a successful result.
C3_UndecodableIdRejected ==
    \A c \in DOMAIN calls :
        (/\ calls[c].op = "schedule"
         /\ Registered(c)
         /\ Undecodable(PortOf(c), calls[c].args.address_id)) =>
            /\ calls[c].pc = "done"
            /\ calls[c].result = Err("InvalidAddressId")

\* Cologne has rejected an id that Nuremberg's search returns, and the ids of
\* each adapter are undecodable for the other.
C3_Witness ==
    /\ \A e \in CologneStreetEntries : Undecodable("nuremberg", CologneEncodeId(e))
    /\ \A hn \in NurembergHouseNumbers : Undecodable("cologne", NurembergEncodeId(hn))
    /\ \E c \in Returned("schedule") :
           /\ Registered(c) /\ PortOf(c) = "cologne"
           /\ calls[c].args.address_id \in
                  {NurembergEncodeId(hn) : hn \in NurembergHouseNumbers}
           /\ calls[c].result = Err("InvalidAddressId")

AllWhitespace(s) == \A i \in 1..Len(s) : IsWhitespace(s[i])

\* C4: for every registered city, search_addresses with limit = 0 or with a
\* street that is empty or only whitespace returns Ok(empty) and issues no
\* backend request, whatever the house-number filter is.
C4_EmptySearchShortCircuits ==
    \A c \in DOMAIN calls :
        (/\ calls[c].op = "search"
         /\ Registered(c)
         /\ \/ calls[c].args.limit = 0
            \/ AllWhitespace(calls[c].args.query.street)) =>
            /\ calls[c].pc = "done"
            /\ calls[c].result = Ok(<<>>)
            /\ calls[c].reqs = <<>>

\* A search with a positive limit, a street of whitespace and a house-number
\* filter has returned Ok(empty) without a request.
C4_Witness ==
    \E c \in Returned("search") :
        /\ Registered(c)
        /\ calls[c].args.limit > 0
        /\ calls[c].args.query.street # <<>>
        /\ AllWhitespace(calls[c].args.query.street)
        /\ calls[c].args.query.house_number.some
        /\ calls[c].result = Ok(<<>>)
        /\ calls[c].reqs = <<>>

\* C5: every successful search, by either adapter, returns at most `limit`
\* addresses, for any number of matching streets and house numbers.
C5_SearchAtMostLimit ==
    \A c \in Succeeded("search") :
        Len(calls[c].result.value) <= calls[c].args.limit

\* A Nuremberg search has returned exactly `limit` addresses of two streets
\* although the second street offered more house numbers than were left.
C5_Witness ==
    \E c \in Succeeded("search") :
        /\ PortOf(c) = "nuremberg"
        /\ calls[c].args.limit >= 2
        /\ Len(calls[c].result.value) = calls[c].args.limit
        /\ Len(calls[c].resps) = 3
        /\ Len(calls[c].resps[2].data) + Len(calls[c].resps[3].data)
               > calls[c].args.limit
        /\ calls[c].result.value[1].street # calls[c].result.value[2].street

\* The dates of the entries of the schedule response of the call c.
EntryDates(c) ==
    LET data == calls[c].resps[Len(calls[c].resps)].data IN
    [i \in 1..Len(data) |->
        IF PortOf(c) = "cologne" THEN <<data[i].year, data[i].month, data[i].day>>
        ELSE ParseFromStr(data[i].date).value]

\* C6: every event of a successful schedule fetch has start <= date <= end,
\* also when the backend returned a superset of the range, and every backend
\* entry dated within [start, end] is in the result, both boundaries included.
C6_ScheduleWithinRange ==
    \A c \in Succeeded("schedule") :
        LET events == calls[c].result.value
            dates == EntryDates(c)
            range == calls[c].args.range
        IN  /\ \A i \in 1..Len(events) :
                   /\ ~DateLt(events[i].date, range.start)
                   /\ ~DateLt(range.end, events[i].date)
            /\ \A k \in 1..Len(dates) :
                   (~DateLt(dates[k], range.start) /\ ~DateLt(range.end, dates[k])) =>
                       Cardinality({i \in 1..Len(events) : events[i].date = dates[k]})
                           = Count(dates, dates[k])

\* A fetch over a range of several days has kept the entry dated on the end
\* boundary and dropped an entry dated after it.
C6_Witness ==
    \E c \in Succeeded("schedule") :
        /\ DateLt(calls[c].args.range.start, calls[c].args.range.end)
        /\ Len(calls[c].result.value) = 1
        /\ calls[c].result.value[1].date = calls[c].args.range.end
        /\ \E k \in 1..Len(EntryDates(c)) :
               DateLt(calls[c].args.range.end, EntryDates(c)[k])

\* The CityId is the id of a plugin given to PluginRegistry::new.
AtConstruction(id) == \E i \in 1..Len(plugins) : plugins[i].meta.id = id

\* C7: in every state the operations reach, PluginRegistry::plugin on a CityId
\* registered at construction returns the bundle whose meta.id is that CityId,
\* and on every other CityId it fails with UnsupportedCity.
C7_RegistryLookup ==
    \A id \in CityIds \cup {CologneCityMeta.name, NurembergCityMeta.name} :
        IF AtConstruction(id)
        THEN /\ RegistryPlugin(registry, id).ok
             /\ RegistryPlugin(registry, id).value.meta.id = id
        ELSE RegistryPlugin(registry, id) = Err("UnsupportedCity")

\* After a completed call on a registry built from two plugins of one city,
\* the lookup of that city succeeds and the lookup of the other city fails.
C7_Witness ==
    /\ \E c \in DOMAIN calls : calls[c].pc = "done" /\ calls[c].invoked # <<>>
    /\ Len(plugins) = 2 /\ plugins[1].meta.id = plugins[2].meta.id
    /\ RegistryPlugin(registry, "cologne").ok
    /\ RegistryPlugin(registry, "cologne").value.meta.id = "cologne"
    /\ RegistryPlugin(registry, "nuremberg") = Err("UnsupportedCity")

\* C8: search_addresses and schedule_for with a CityId that is not registered
\* return UnsupportedCity, invoke no port and issue no backend request.
C8_UnregisteredCityRejected ==
    \A c \in DOMAIN calls :
        (calls[c].pc # "idle" /\ ~AtConstruction(calls[c].city)) =>
            /\ calls[c].pc = "done"
            /\ calls[c].result = Err("UnsupportedCity")
            /\ calls[c].invoked = <<>>
            /\ calls[c].reqs = <<>>

\* A schedule fetch for Nuremberg, with an id Nuremberg would decode, has
\* been rejected by a registry that holds only Cologne.
C8_Witness ==
    \E c \in Returned("schedule") :
        /\ calls[c].city = "nuremberg"
        /\ ~AtConstruction("nuremberg")
        /\ AtConstruction("cologne")
        /\ NurembergDecodeId(calls[c].args.address_id).ok
        /\ calls[c].result = Err("UnsupportedCity")
        /\ calls[c].invoked = <<>>

\* C9: for a registered city the facade invokes exactly once the port of that
\* city's bundle (address port for search_addresses, schedule port for
\* schedule_for) with the caller's arguments, invokes no other port, and
\* returns exactly what that port returned.
C9_FacadeDelegates ==
    \A c \in DOMAIN calls :
        (calls[c].pc # "idle" /\ AtConstruction(calls[c].city)) =>
            /\ Len(calls[c].invoked) = 1
            /\ calls[c].invoked[1].op = calls[c].op
            /\ calls[c].invoked[1].port =
                   IF calls[c].op = "search"
                   THEN registry[calls[c].city].address_port
                   ELSE registry[calls[c].city].schedule_port
            /\ calls[c].invoked[1].args = calls[c].args
            /\ calls[c].pc = "done" =>
                   /\ calls[c].invoked[1].returned # NoResult
                   /\ calls[c].result = calls[c].invoked[1].returned

\* With both cities registered, a Nuremberg call has returned the network
\* error of Nuremberg's port.
C9_Witness ==
    \E c \in DOMAIN calls :
        /\ calls[c].pc = "done"
        /\ AtConstruction("cologne") /\ AtConstruction("nuremberg")
        /\ calls[c].city = "nuremberg"
        /\ calls[c].invoked[1].port = "nuremberg"
        /\ calls[c].invoked[1].returned = Err("Network")
        /\ calls[c].result = Err("Network")

\* The category the backend gave the i-th entry of the schedule response:
\* Cologne's type, Nuremberg's name of the district's fraction id, if any.
EntryCategory(c, i) ==
    LET entry == calls[c].resps[Len(calls[c].resps)].data[i] IN
    IF PortOf(c) = "cologne" THEN Some(entry.typ)
    ELSE IF entry.district.some
    THEN FractionName(calls[c].resps[1].data, entry.district.val)
    ELSE None

\* C10: for every backend category string the adapter's mapping yields, without
\* failing, one of the six canonical fractions or Other(s) with s exactly the
\* backend's string, and no pickup entry is dropped for its category.
C10_FractionMappingTotal ==
    \A c \in Returned("schedule") :
        Registered(c) =>
            /\ calls[c].result.ok
            /\ Len(calls[c].result.value)
                   = Len(calls[c].resps[Len(calls[c].resps)].data)
            /\ \A i \in 1..Len(calls[c].result.value) :
                   LET fraction == calls[c].result.value[i].fraction IN
                   /\ fraction.tag \in CanonicalFractions \cup {"Other"}
                   /\ fraction.tag \in CanonicalFractions =>
                          fraction = Canonical(fraction.tag)
                   /\ (fraction.tag = "Other" /\ EntryCategory(c, i).some) =>
                          fraction = Other(EntryCategory(c, i).val)

\* A pickup whose category matches no keyword and is not all lowercase has
\* been returned as Other with the category as the backend spelt it.
C10_Witness ==
    \E c \in Succeeded("schedule") :
        /\ PortOf(c) = "nuremberg"
        /\ Len(calls[c].result.value) = 1
        /\ EntryCategory(c, 1).some
        /\ ToLowercase(EntryCategory(c, 1).val) # EntryCategory(c, 1).val
        /\ calls[c].result.value[1].fraction = Other(EntryCategory(c, 1).val)

\* The events of successful Nuremberg schedule fetches whose backend pickup
\* has a fraction name, as <<name, lowercased name, fraction>>.
NurembergMapped ==
    {<<EntryCategory(c, i).val, ToLowercase(EntryCategory(c, i).val),
       calls[c].result.value[i].fraction>> :
        <<c, i>> \in {<<c, i>> \in Succeeded("schedule") \X (1..MaxEntries) :
                          /\ PortOf(c) = "nuremberg"
                          /\ i <= Len(calls[c].result.value)
                          /\ Len(calls[c].result.value)
                                 = Len(calls[c].resps[Len(calls[c].resps)].data)
                          /\ EntryCategory(c, i).some}}

\* The keywords map_fraction tests before "bio" and before "glas".
BeforeBio == {Chars("rest")}
BeforeGlas ==
    BeforeBio \cup {Chars("bio"), Chars("papier"), Chars("pappe"), Chars("gelb"),
                    Chars("leichtverpackung"), Chars("lvp")}
NurembergKeywords == BeforeGlas \cup {Chars("glas"), Chars("metall"), Chars("schrott")}

\* C11 as stated: every Nuremberg fraction name that contains "bio" in any
\* case maps to Organic and every name that contains "glas" maps to Glass,
\* whatever else it contains; a name with no keyword maps to Other(name).
C11_SubstringAlwaysWins ==
    \A m \in NurembergMapped :
        /\ Contains(m[2], Chars("bio")) => m[3] = Canonical("Organic")
        /\ Contains(m[2], Chars("glas")) => m[3] = Canonical("Glass")
        /\ (\A k \in NurembergKeywords : ~Contains(m[2], k)) => m[3] = Other(m[1])

\* C11 amended: the keywords are tested in a fixed order and the first that
\* the lowercased name contains decides: "bio" gives Organic unless the name
\* contains "rest"; "glas" gives Glass unless the name contains an earlier
\* keyword; a name with no keyword maps to Other(name).
C11_FirstKeywordWins ==
    \A m \in NurembergMapped :
        /\ Contains(m[2], Chars("rest")) => m[3] = Canonical("Residual")
        /\ (Contains(m[2], Chars("bio")) /\ \A k \in BeforeBio : ~Contains(m[2], k))
               => m[3] = Canonical("Organic")
        /\ (Contains(m[2], Chars("glas")) /\ \A k \in BeforeGlas : ~Contains(m[2], k))
               => m[3] = Canonical("Glass")
        /\ (\A k \in NurembergKeywords : ~Contains(m[2], k)) => m[3] = Other(m[1])

\* A name with "GLAS" in capitals inside a longer name was mapped to Glass.
C11_Witness ==
    \E m \in NurembergMapped :
        /\ m[1] = Chars("AltGLAStonne")
        /\ m[3] = Canonical("Glass")

\* The events of successful Cologne schedule fetches with the type of their
\* backend entry, as <<type, lowercased type, event>>.
CologneMapped ==
    {<<EntryCategory(c, i).val, ToLowercase(EntryCategory(c, i).val),
       calls[c].result.value[i]>> :
        <<c, i>> \in {<<c, i>> \in Succeeded("schedule") \X (1..MaxEntries) :
                          /\ PortOf(c) = "cologne"
                          /\ i <= Len(calls[c].result.value)
                          /\ Len(calls[c].result.value)
                                 = Len(calls[c].resps[Len(calls[c].resps)].data)}}

\* C12: Cologne maps the types "grey", "blue", "wertstoff" and "brown",
\* compared in any case and as whole strings, to Residual, Paper, Plastic and
\* Organic ("brown" with the note "Bioabfall"), every other type x to Other(x)
\* with the note "Fraktion x"; every Cologne event carries a note.
C12_CologneTypeAndNote ==
    \A m \in CologneMapped :
        /\ m[3].note.some
        /\ m[2] = Chars("brown") =>
               m[3].fraction = Canonical("Organic") /\ m[3].note = Some(Chars("Bioabfall"))
        /\ m[2] = Chars("grey") => m[3].fraction = Canonical("Residual")
        /\ m[2] = Chars("blue") => m[3].fraction = Canonical("Paper")
        /\ m[2] = Chars("wertstoff") => m[3].fraction = Canonical("Plastic")
        /\ m[2] \notin {Chars("brown"), Chars("grey"), Chars("blue"), Chars("wertstoff")}
               => /\ m[3].fraction = Other(m[1])
                  /\ m[3].note = Some(Chars("Fraktion ") \o m[1])

\* A type that contains "Brown" but is a longer string came back as Other
\* with the note "Fraktion AltBrowntonne".
C12_Witness ==
    \E m \in CologneMapped :
        /\ m[1] = Chars("AltBrowntonne")
        /\ m[3].fraction = Other(Chars("AltBrowntonne"))
        /\ m[3].note = Some(Chars("Fraktion AltBrowntonne"))

\* The calls whose Cologne schedule port has issued its calendar request.
CologneRequested ==
    {c \in DOMAIN calls :
        /\ calls[c].op = "schedule"
        /\ calls[c].reqs # <<>>
        /\ calls[c].reqs[1].ep = "cologne/calendar"}

\* C13: for a range with start <= end the Cologne calendar request asks for
\* the years of start and end, with the months of start and end when the
\* years are equal and with months 1 and 12 when they differ, so the window
\* covers the range; the events returned lie in the range.
C13_CologneWindowCoversRange ==
    \A c \in CologneRequested :
        LET range == calls[c].args.range
            window == calls[c].reqs[1].window
        IN  DateLe(range.start, range.end) =>
                /\ window.start_year = range.start[1]
                /\ window.end_year = range.end[1]
                /\ range.start[1] = range.end[1] =>
                       /\ window.start_month = range.start[2]
                       /\ window.end_month = range.end[2]
                /\ range.start[1] # range.end[1] =>
                       /\ window.start_month = 1
                       /\ window.end_month = 12
                /\ ~DateLt(range.start, <<window.start_year, window.start_month, 1>>)
                /\ ~DateLt(<<window.end_year, window.end_month, 31>>, range.end)
                /\ (calls[c].pc = "done" /\ calls[c].result.ok) =>
                       \A i \in 1..Len(calls[c].result.value) :
                           /\ DateLe(range.start, calls[c].result.value[i].date)
                           /\ DateLe(calls[c].result.value[i].date, range.end)

\* The fetch of 2024-12-15..2025-01-15 requested January 2024 to December
\* 2025 and returned, of two backend entries, the one inside the range.
C13_Witness ==
    \E c \in CologneRequested :
        /\ calls[c].pc = "done"
        /\ calls[c].args.range = [start |-> <<2024, 12, 15>>, end |-> <<2025, 1, 15>>]
        /\ calls[c].reqs[1].window =
               [start_year |-> 2024, end_year |-> 2025,
                start_month |-> 1, end_month |-> 12]
        /\ calls[c].result.ok
        /\ Len(calls[c].resps[1].data) = 2
        /\ Len(calls[c].result.value) = 1
        /\ calls[c].result.value[1].date = <<2025, 1, 15>>

\* The backend requests of call c that ended in a failure.
FailedRequests(c) ==
    {k \in 1..Len(calls[c].resps) : calls[c].resps[k].kind \in FetchFailures}

\* C14: in every adapter operation, a backend request that ends in a transport
\* failure, a non-success status or a body-decode failure ends the operation
\* with an error (PortError::Network): it issues no further request and never
\* returns Ok, neither empty nor with the results of earlier requests.
C14_BackendFailureIsError ==
    \A c \in DOMAIN calls :
        FailedRequests(c) # {} =>
            /\ calls[c].pc = "done"
            /\ FailedRequests(c) = {Len(calls[c].resps)}
            /\ Len(calls[c].reqs) = Len(calls[c].resps)
            /\ ~calls[c].result.ok
            /\ calls[c].result = Err("Network")

\* A Nuremberg search whose first street-detail request gave an address and
\* whose second street-detail request failed has returned an error.
C14_Witness ==
    \E c \in Returned("search") :
        /\ calls[c].invoked # <<>>
        /\ PortOf(c) = "nuremberg"
        /\ Len(calls[c].resps) = 3
        /\ calls[c].resps[2].kind = "ok"
        /\ calls[c].results # <<>>
        /\ calls[c].resps[3].kind \in FetchFailures
        /\ calls[c].result = Err("Network")

\* The CityIds of the entries a cities() call returned, in their order.
ListedIds(c) ==
    [i \in 1..Len(calls[c].result.value) |->
        IF calls[c].op = "service.cities"
        THEN calls[c].result.value[i][1] ELSE calls[c].result.value[i].id]

ListedNames(c) ==
    [i \in 1..Len(calls[c].result.value) |->
        IF calls[c].op = "service.cities"
        THEN calls[c].result.value[i][2] ELSE calls[c].result.value[i].name]

\* C15: for any plugin list, PluginRegistry::cities and TonneliService::cities
\* return exactly one entry per distinct CityId of the list, with the id and
\* the display name of the bundle registered under that id; an id is listed
\* if and only if plugin(id) succeeds, also when two plugins share an id.
C15_CitiesListsRegistered ==
    \A c \in Returned("registry.cities") \cup Returned("service.cities") :
        /\ Len(ListedIds(c)) = Cardinality({plugins[i].meta.id : i \in 1..Len(plugins)})
        /\ \A id \in {plugins[i].meta.id : i \in 1..Len(plugins)} :
               /\ Cardinality({i \in 1..Len(ListedIds(c)) : ListedIds(c)[i] = id}) = 1
               /\ \A i \in 1..Len(ListedIds(c)) :
                      ListedIds(c)[i] = id =>
                          /\ RegistryPlugin(registry, id).ok
                          /\ ListedNames(c)[i]
                                 = RegistryPlugin(registry, id).value.meta.name
                          /\ \E k \in 1..Len(plugins) :
                                 plugins[k].meta = [id |-> id, name |-> ListedNames(c)[i]]
        /\ \A id \in CityIds :
               (\E i \in 1..Len(ListedIds(c)) : ListedIds(c)[i] = id)
                   <=> RegistryPlugin(registry, id).ok

\* From the list Cologne, Nuremberg, Cologne under another name, the service
\* listed two cities, Cologne once.
C15_Witness ==
    \E c \in Returned("service.cities") :
        /\ plugins = <<ColognePlugin, NurembergPlugin, CologneRenamedPlugin>>
        /\ Len(calls[c].result.value) = 2
        /\ \E i \in 1..2 : calls[c].result.value[i] = <<"cologne", "Cologne">>
        /\ \E i \in 1..2 : calls[c].result.value[i] = <<"nuremberg", "Nuernberg">>

\* C16: every Address of a successful search_addresses call for city c has
\* city = c, the bundle's meta and its two ports reporting the same CityMeta,
\* and the label "<street> <house number>" of its own street and house_number.
C16_AddressCityAndLabel ==
    \A c \in Succeeded("search") :
        /\ registry[calls[c].city].meta.id = calls[c].city
        /\ PortCity(registry[calls[c].city].address_port) = registry[calls[c].city].meta
        /\ PortCity(registry[calls[c].city].schedule_port) = registry[calls[c].city].meta
        /\ \A i \in 1..Len(calls[c].result.value) :
               LET address == calls[c].result.value[i] IN
               /\ address.city = calls[c].city
               /\ address.label = address.street \o Chars(" ") \o address.house_number

\* A Cologne search returned an address whose backend entry has user-facing
\* names: city "cologne", label "Ab 1a".
C16_Witness ==
    \E c \in Succeeded("search") :
        /\ calls[c].city = "cologne"
        /\ \E i \in 1..Len(calls[c].result.value) :
               /\ calls[c].resps[1].data[i].street_name = Chars("ab")
               /\ calls[c].result.value[i].city = "cologne"
               /\ calls[c].result.value[i].label = Chars("Ab 1a")

\* The frame of a call with the operation, city and arguments of f that runs
\* alone on the registry, up to its first backend request.
AloneStart(f) ==
    LET f0 == [IdleFrame EXCEPT !.op = f.op, !.city = f.city, !.args = f.args]
        plugin == RegistryPlugin(PluginRegistryNew(plugins), f.city)
    IN  IF ~plugin.ok THEN FacadeReturn(f0, Err(plugin.err))
        ELSE IF f.op = "search"
        THEN AddressPortSearch(plugin.value.address_port, f0,
                               f.args.query, f.args.limit)
        ELSE SchedulePortSchedule(plugin.value.schedule_port, f0,
                                  f.args.address_id, f.args.range)

\* The frame g resumed with the outcome of the request it waits for.
AloneResume(g, outcome) ==
    LET ep == g.reqs[Len(g.reqs)].ep IN
    CASE ep = "cologne/streets" -> CologneSearchResume(g, outcome)
      [] ep = "cologne/calendar" -> CologneScheduleResume(g, outcome)
      [] ep = "nuremberg/strassen" -> NurembergStreetsResume(g, outcome)
      [] ep = "nuremberg/strasse" -> NurembergDetailResume(g, outcome)
      [] ep = "nuremberg/fraktionen" -> NurembergFractionsResume(g, outcome)
      [] ep = "nuremberg/termine" -> NurembergPickupsResume(g, outcome)

\* The call of f run alone against the first k backend responses f received.
RECURSIVE Alone(_, _)
Alone(f, k) ==
    IF k = 0 THEN AloneStart(f) ELSE AloneResume(Alone(f, k - 1), f.resps[k])

InvalidDates(c) ==
    IF calls[c].invoked = <<>> \/ calls[c].resps = <<>> THEN {}
    ELSE LET last == Len(calls[c].resps)
             data == calls[c].resps[last].data
         IN  IF calls[c].resps[last].kind # "ok" THEN {}
             ELSE IF calls[c].reqs[last].ep = "cologne/calendar"
             THEN {i \in 1..Len(data) :
                      ~FromYmdOpt(data[i].year, data[i].month, data[i].day).some}
             ELSE IF calls[c].reqs[last].ep = "nuremberg/termine"
             THEN {i \in 1..Len(data) : ~ParseFromStr(data[i].date).ok}
             ELSE {}

\* C18: a schedule response with an entry whose date is not a calendar date
\* (Cologne: the year/month/day triple; Nuremberg: a string that does not
\* parse as YYYY-MM-DD) fails the whole call, Cologne with Internal and
\* Nuremberg with Parse, whatever the other entries and the range are.
C18_InvalidDateFailsCall ==
    \A c \in Returned("schedule") :
        InvalidDates(c) # {} =>
            /\ ~calls[c].result.ok
            /\ calls[c].result.value = <<>>
            /\ calls[c].result =
                   IF PortOf(c) = "cologne" THEN Err("Internal") ELSE Err("Parse")

\* A Cologne response with a pickup inside the range and then an entry dated
\* 2025-02-30, which lies outside the range, failed the call with Internal.
C18_Witness ==
    \E c \in Returned("schedule") :
        /\ InvalidDates(c) = {2}
        /\ PortOf(c) = "cologne"
        /\ calls[c].args.range = [start |-> <<2024, 12, 15>>, end |-> <<2025, 1, 15>>]
        /\ calls[c].resps[1].data[1].day = 15 /\ calls[c].resps[1].data[1].year = 2025
        /\ calls[c].resps[1].data[2].month = 2
        /\ calls[c].result = Err("Internal")

\* C19: a schedule call that returns InvalidAddressId (Cologne: the id has no
\* ':'; Nuremberg: the id is not the text of a 32-bit signed integer) has
\* issued no backend request: the id is decoded first.
C19_DecodeBeforeRequest ==
    \A c \in Returned("schedule") :
        calls[c].result = Err("InvalidAddressId") =>
            /\ calls[c].invoked # <<>>
            /\ Undecodable(PortOf(c), calls[c].args.address_id)
            /\ calls[c].reqs = <<>>
            /\ calls[c].resps = <<>>

\* Nuremberg's schedule rejected the id "2147483648", which its search
\* returns, without a request.
C19_Witness ==
    \E c \in Returned("schedule") :
        /\ calls[c].invoked # <<>>
        /\ PortOf(c) = "nuremberg"
        /\ calls[c].args.address_id = Chars("2147483648")
        /\ calls[c].result = Err("InvalidAddressId")
        /\ calls[c].reqs = <<>>

\* The Nuremberg schedule calls that have started in the adapter.
NurembergScheduleCalls ==
    {c \in DOMAIN calls :
        /\ calls[c].op = "schedule"
        /\ calls[c].invoked # <<>>
        /\ PortOf(c) = "nuremberg"}

\* C20: a Nuremberg schedule call requests first the fractions of the house
\* number and then, only after that request succeeded, once the pickups of
\* the same house number with one fraktion parameter per fraction id of the
\* first response, in its order; it issues no third request and none after
\* a failed one.
C20_NurembergRequestOrder ==
    \A c \in NurembergScheduleCalls :
        LET reqs == calls[c].reqs
            resps == calls[c].resps
        IN  /\ Len(reqs) <= 2
            /\ Len(resps) <= Len(reqs)
            /\ calls[c].pc = "await" => Len(reqs) = Len(resps) + 1
            /\ calls[c].pc = "done" => Len(reqs) = Len(resps)
            /\ Len(reqs) >= 1 =>
                   /\ reqs[1].ep = "nuremberg/fraktionen"
                   /\ I64ToString(I64FromI32(reqs[1].house_number_id))
                          = StripZeros(IF Head(calls[c].args.address_id) = "+"
                                       THEN Tail(calls[c].args.address_id)
                                       ELSE calls[c].args.address_id)
            /\ Len(reqs) = 2 =>
                   /\ resps[1].kind = "ok"
                   /\ reqs[2].ep = "nuremberg/termine"
                   /\ reqs[2].house_number_id = reqs[1].house_number_id
                   /\ reqs[2].fraktion =
                          [i \in 1..Len(resps[1].data) |-> resps[1].data[i].id]
            /\ (Len(resps) >= 1 /\ resps[1].kind # "ok") => Len(reqs) = 1
            /\ (Len(resps) >= 1 /\ resps[1].kind = "ok") => Len(reqs) = 2

\* A call whose fractions response listed the id 1 twice has requested the
\* pickups with fraktion=1&fraktion=1 and has returned.
C20_Witness ==
    \E c \in NurembergScheduleCalls :
        /\ calls[c].pc = "done"
        /\ Len(calls[c].reqs) = 2
        /\ Len(calls[c].resps[1].data) = 2
        /\ calls[c].reqs[2].fraktion = <<1, 1>>
        /\ calls[c].resps[2].kind = "ok"
        /\ calls[c].result.ok

\* The Nuremberg search calls that have issued a request.
NurembergSearchCalls ==
    {c \in DOMAIN calls :
        /\ calls[c].op = "search"
        /\ calls[c].invoked # <<>>
        /\ PortOf(c) = "nuremberg"
        /\ calls[c].reqs # <<>>}

\* The ids of the streets of the list response whose name contains the
\* trimmed query, compared in lower case, in the order of the list.
MatchingStreetIds(c) ==
    LET streets == calls[c].resps[1].data
        query_lower == ToLowercase(Trim(calls[c].args.query.street))
        matching == {i \in 1..Len(streets) :
                        Contains(ToLowercase(streets[i].name), query_lower)}
    IN  [k \in 1..Cardinality(matching) |->
            streets[CHOOSE i \in matching :
                        Cardinality({j \in matching : j <= i}) = k].id]

\* The number of addresses the first k street-detail responses contribute.
RECURSIVE Collected(_, _)
Collected(c, k) ==
    IF k = 0 THEN 0
    ELSE LET before == Collected(c, k - 1)
             house_filter == NurembergHouseFilter(calls[c].args.query)
             passing == {i \in 1..Len(calls[c].resps[k + 1].data) :
                            house_filter.some =>
                                Contains(ToLowercase(calls[c].resps[k + 1].data[i].number),
                                         house_filter.val)}
             remaining == calls[c].args.limit - before
         IN  before + (IF Cardinality(passing) < remaining
                       THEN Cardinality(passing) ELSE remaining)

\* C21: a Nuremberg search requests the street list once, then the details of
\* the streets whose name contains the query, in list order, one request at a
\* time; it requests no details once it has collected limit addresses, and
\* nothing after a failed request.
C21_NurembergSearchRequestOrder ==
    \A c \in NurembergSearchCalls :
        LET reqs == calls[c].reqs
            resps == calls[c].resps
        IN  /\ reqs[1].ep = "nuremberg/strassen"
            /\ \A k \in 2..Len(reqs) : reqs[k].ep = "nuremberg/strasse"
            /\ calls[c].pc = "await" => Len(reqs) = Len(resps) + 1
            /\ calls[c].pc = "done" => Len(reqs) = Len(resps)
            /\ FailedRequests(c) \subseteq {Len(reqs)}
            /\ Len(reqs) >= 2 =>
                   /\ Len(reqs) - 1 <= Len(MatchingStreetIds(c))
                   /\ \A k \in 1..(Len(reqs) - 1) :
                          /\ reqs[k + 1].id = MatchingStreetIds(c)[k]
                          /\ Collected(c, k - 1) < calls[c].args.limit
            /\ (calls[c].pc = "done" /\ calls[c].result.ok) =>
                   /\ Len(calls[c].result.value) = Collected(c, Len(reqs) - 1)
                   /\ \/ Len(calls[c].result.value) = calls[c].args.limit
                      \/ Len(reqs) - 1 = Len(MatchingStreetIds(c))

\* With two matching streets behind a street that does not match and limit 1,
\* the search returned after the details of the first matching street.
C21_Witness ==
    \E c \in NurembergSearchCalls :
        /\ calls[c].pc = "done"
        /\ calls[c].args.limit = 1
        /\ Len(calls[c].resps[1].data) = 3
        /\ Len(MatchingStreetIds(c)) = 2
        /\ Len(calls[c].reqs) = 2
        /\ calls[c].result.ok
        /\ Len(calls[c].result.value) = 1

\* C22: with start > end neither adapter rejects the range: a call whose id
\* decodes issues its requests, and when they succeed with valid dates it
\* returns Ok with no events.
C22_InvertedRangeGivesEmpty ==
    \A c \in Returned("schedule") :
        (/\ calls[c].invoked # <<>>
         /\ DateLt(calls[c].args.range.end, calls[c].args.range.start)
         /\ ~Undecodable(PortOf(c), calls[c].args.address_id)) =>
            /\ Len(calls[c].reqs) >= 1
            /\ (PortOf(c) = "nuremberg" /\ calls[c].resps[1].kind = "ok") =>
                   Len(calls[c].reqs) = 2
            /\ (FailedRequests(c) = {} /\ InvalidDates(c) = {}) =>
                   calls[c].result = Ok(<<>>)

\* Cologne answered the range 2025-01-15..2024-12-15 with two valid entries,
\* one dated 2025-01-15; the call returned Ok with no events.
C22_Witness ==
    \E c \in Returned("schedule") :
        /\ calls[c].invoked # <<>>
        /\ PortOf(c) = "cologne"
        /\ DateLt(calls[c].args.range.end, calls[c].args.range.start)
        /\ Len(calls[c].reqs) = 1
        /\ calls[c].resps[1].kind = "ok"
        /\ Len(calls[c].resps[1].data) = 2
        /\ calls[c].resps[1].data[1].day = 15 /\ calls[c].resps[1].data[1].year = 2025
        /\ InvalidDates(c) = {}
        /\ calls[c].result = Ok(<<>>)

(***************************************************************************)
(* The terminal UI.                                                        *)
(***************************************************************************)
\* index is a valid index into list, or 0 when list is empty.
ValidIndex(index, list) ==
    IF list = <<>> THEN index = 0 ELSE index \in 0..(Len(list) - 1)

\* C23: after any sequence of key events and completed service calls,
\* city_list_index is a valid index into cities (0 when cities is empty) and
\* address_list_index is a valid index into address_results (0 when it is
\* empty); a successful search stores its addresses and sets
\* address_list_index to 0, and the step back from the address screen to the
\* city screen empties address_results and sets address_list_index to 0.
C23_ListIndicesValid ==
    /\ [](/\ ValidIndex(app.city_list_index, app.cities)
          /\ ValidIndex(app.address_list_index, app.address_results))
    /\ [][/\ ((/\ app.action = "SearchAddresses"
               /\ calls[1].pc = "done"
               /\ calls[1].result.ok)
                  => (/\ app'.address_results = calls[1].result.value
                      /\ app'.address_list_index = 0))
           /\ ((app.screen = "AddressSearch" /\ app'.screen = "CitySelect")
                  => (/\ app'.address_results = <<>>
                      /\ app'.address_list_index = 0))]_vars

\* A search succeeded with one address after an address of an earlier result
\* had been picked and its schedule loaded.
C23_Witness ==
    /\ app.screen = "AddressSearch"
    /\ app.action = "None"
    /\ Len(app.address_results) = 1
    /\ app.address_list_index = 0
    /\ ~app.selected_address.some
    /\ app.pickups # <<>>

\* C24: after any sequence of key events and service calls, on the
\* AddressSearch and the ScheduleView screen selected_city is Some and is the
\* id of cities[city_list_index]; on the ScheduleView screen selected_address
\* is Some; address_results is empty on the CitySelect screen, and otherwise
\* every address in it belongs to the selected city and was returned by a
\* search of the selected city.
C24_SelectionsMatchScreen ==
    /\ app.screen \in {"AddressSearch", "ScheduleView"} =>
           /\ app.selected_city.some
           /\ app.city_list_index < Len(app.cities)
           /\ app.selected_city.val = app.cities[app.city_list_index + 1][1]
    /\ app.screen = "ScheduleView" => app.selected_address.some
    /\ app.screen = "CitySelect" => app.address_results = <<>>
    /\ app.address_results # <<>> =>
           /\ app.searched_city = app.selected_city
           /\ \A i \in 1..Len(app.address_results) :
                  app.address_results[i].city = app.selected_city.val

\* The schedule of the second of two addresses found in the second city of
\* the list is on the screen.
C24_Witness ==
    /\ app.screen = "ScheduleView"
    /\ app.action = "None"
    /\ app.city_list_index = 1
    /\ Len(app.address_results) = 2
    /\ app.address_list_index = 1
    /\ app.selected_address = Some(app.address_results[2])
    /\ app.pickups # <<>>
====
